---- MODULE Spec2Model ----
(***************************************************************************)
(* Model of the query/update compiler and of the schema synchronisation   *)
(* of multi-db-connect                                                    *)
(* (src/src/migration/Migration.ts, the query-parser part, and the update  *)
(* paths of the relational and document adapters).                         *)
(*                                                                         *)
(* Representation.                                                         *)
(*  - A JavaScript value is a record [t, n, s, items]: t is its type tag   *)
(*    ("num", "str", "null", "bool", "list"), n the number (or 1/0 for a   *)
(*    boolean), s the string, items the elements of an array.              *)
(*  - A JavaScript object is the sequence of its entries in insertion      *)
(*    order (the order Object.entries yields).                             *)
(*  - A SQL string is the sequence of its tokens; Render gives the string. *)
(*    A placeholder token is the prefix followed by the decimal index,     *)
(*    exactly the text the template literal produces ("$1", "?2").         *)
(*  - ParsedCondition.value holds either a value or, for $or/$and, the     *)
(*    array of parsed child filters; the latter is the field subs.         *)
(***************************************************************************)
EXTENDS Integers, Sequences, FiniteSets, TLC

VARIABLES
  pc,          \* position in the adapter method: start, parsed, where, done
  op,          \* the adapter method called: find, updateOne, updateMany
  filter,      \* its filter argument
  update,      \* its update argument
  matched,     \* whether the backend holds a row matching the filter
  conditions,  \* parseQueryFilter(filter)
  dialect,     \* the adapter: postgres, mysql, sqlite, mongodb
  where,       \* the compiled WHERE clause
  params,      \* and its parameters
  mongoFilter, \* the compiled native filter
  sql,         \* the UPDATE statement handed to the driver
  sqlParams,   \* and its parameters
  mongoUpdate, \* the native update document handed to the driver
  outcome      \* how the method ended

vars == <<pc, op, filter, update, matched, conditions, dialect, where, params,
          mongoFilter, sql, sqlParams, mongoUpdate, outcome>>

\* The schema synchronisation (SchemaSyncManager.sync behind Model.sync, syncAll
\* and the auto-sync of a model) has its own state.
VARIABLES
  adapterName, \* this.adapter.name: the connected adapter
  connection,  \* the sync settings the connection manager keeps
  schema,      \* schema.definition: the declared fields in declaration order
  db,          \* the backend: the table, its columns and its indexes
  synced,      \* syncedModels.has(name)
  prevSync,    \* the sync call before the last one
  lastSync     \* the last sync call: options, statements issued, result

syncVars == <<adapterName, connection, schema, db, synced, prevSync, lastSync>>

\* no table, no sync call: the values outside a synchronisation
NoTable == [exists |-> FALSE, columns |-> {}, indexes |-> {}]
NoResult == [created |-> FALSE, altered |-> FALSE, changes |-> <<>>]
NoCall ==
  [n |-> 0, via |-> "", options |-> [force |-> FALSE, alter |-> FALSE],
   schema |-> <<>>, before |-> NoTable, after |-> NoTable, log |-> <<>>,
   result |-> NoResult, threw |-> FALSE]
NotConnected ==
  [given |-> FALSE, syncEnabled |-> FALSE, syncOptions |-> [force |-> FALSE, alter |-> FALSE]]

\* Two sync calls for the same table that overlap, statement by statement.
VARIABLES
  race         \* per caller: position in sync, introspected columns, statements

raceVars == <<race>>

\* The column type given to one field by table creation and by ADD COLUMN.
VARIABLES
  column       \* the field, and the column definition each path produced

typeVars == <<column>>

\* a column definition: the native type and the constraints after it
NoDefinition == [type |-> "", rest |-> ""]
NoColumn == [type |-> "", required |-> FALSE, created |-> NoDefinition, added |-> NoDefinition]

\* The connection pool (PoolManager) and the callers that acquire from it.
VARIABLES
  poolConfig,          \* this.config: min, max, validate
  connections,         \* this.connections in insertion order: id, inUse
  waitingQueue,        \* this.waitingQueue: the waiting callers, oldest first
  timers,              \* the callers whose acquire timeout is armed
  connectionIdCounter, \* this.connectionIdCounter
  enqueued,            \* how many requests have entered the waiting queue
  procs,               \* per caller: position in acquire, connection held
  lastRelease,         \* the last release call: queue found, waiter served
  reaper               \* the reaper's pass: ids collected, the last one removed

poolVars == <<poolConfig, connections, waitingQueue, timers, connectionIdCounter,
              enqueued, procs, lastRelease, reaper>>

NoPool == [min |-> 0, max |-> 0, validate |-> FALSE]
NoRelease ==
  [n |-> 0, by |-> 0, conn |-> 0, pooled |-> FALSE, queue |-> <<>>, to |-> 0,
   cleared |-> FALSE, inUse |-> FALSE]
NoRemoval == [id |-> 0, inUse |-> FALSE, size |-> 0]
NoReaper == [pc |-> "", toRemove |-> <<>>, at |-> 0, last |-> NoRemoval]

\* A Transaction, the calls made on it, and TransactionManager.run.
VARIABLES
  trx,      \* the Transaction: adapter, options.autoRollback, _isActive,
            \* _isCommitted, _isRolledBack, client
  trxCall,  \* the last call on it: the flags it found and how it settled
  trxRun,   \* TransactionManager.run: where it is and how it settled
  trxDb     \* the database: the stored rows, the rows as the open session
            \* sees them, the rows at the last begin, the transactions opened

trxVars == <<trx, trxCall, trxRun, trxDb>>

NoTransaction ==
  [adapter |-> "", autoRollback |-> FALSE, _isActive |-> FALSE, _isCommitted |-> FALSE,
   _isRolledBack |-> FALSE, client |-> FALSE]
NoRun == [phase |-> "", callback |-> "", error |-> ""]
\* the documents a call may write, and a table holding none of them
TrxDocs == {"a", "b"}
NoRows == [d \in TrxDocs |-> ""]
NoDb == [rows |-> NoRows, session |-> NoRows, atBegin |-> NoRows, begun |-> 0]

\* A MigrationManager and the history table it keeps.
VARIABLES
  migAdapter,  \* this.adapter.name
  migrations,  \* this.migrations: name and timestamp of each registered file
  history,     \* the rows of the history table: name, timestamp, batch
  migCall      \* the last migrate, rollback or status call and what it did

migVars == <<migAdapter, migrations, history, migCall>>

NoMigrationResult ==
  [success |-> FALSE, executed |-> <<>>, rolled_back |-> <<>>, pending |-> <<>>]
NoMigCall ==
  [n |-> 0, op |-> "", faults |-> {}, failing |-> {}, files |-> <<>>, before |-> <<>>,
   threw |-> FALSE,
   batch |-> 0, ups |-> <<>>, downs |-> <<>>, result |-> NoMigrationResult]

\* A CircuitBreaker and the execute calls made on it.
VARIABLES
  breaker,     \* threshold, failures, state, and whether resetTimeout has
               \* elapsed since lastFailureTime
  executions,  \* per caller: whether its fn is running, how it was admitted
  lastAdmit,   \* the last execute call up to its await: what it found and did
  lastDone     \* the last fn that settled: outcome and the breaker after it

breakerVars == <<breaker, executions, lastAdmit, lastDone>>

NoBreaker == [threshold |-> 0, failures |-> 0, state |-> "", elapsed |-> FALSE]
NoAdmit == [n |-> 0, by |-> 0, open |-> FALSE, elapsed |-> FALSE, invoked |-> FALSE,
            state |-> "", error |-> ""]
NoDone == [by |-> 0, outcome |-> "", probe |-> FALSE, reset |-> FALSE, state |-> "",
           failures |-> 0, streak |-> 0]

\* the state of everything that is neither query compilation nor the
\* synchronisation of one caller
laterVars == <<raceVars, typeVars, poolVars, trxVars, migVars, breakerVars>>

\* the values of the variables of a part of the program that is not running
QueryIdle ==
  /\ filter = <<>> /\ update = <<>> /\ matched = FALSE /\ conditions = <<>>
  /\ dialect = "" /\ where = <<>> /\ params = <<>> /\ mongoFilter = <<>>
  /\ sql = <<>> /\ sqlParams = <<>> /\ mongoUpdate = <<>> /\ outcome = ""
SyncIdle ==
  /\ adapterName = "" /\ schema = <<>> /\ db = NoTable /\ synced = FALSE
  /\ connection = NotConnected /\ prevSync = NoCall /\ lastSync = NoCall
RaceIdle == race = <<>>
TypeIdle == column = NoColumn
PoolIdle ==
  /\ poolConfig = NoPool /\ connections = <<>> /\ waitingQueue = <<>>
  /\ timers = {} /\ connectionIdCounter = 0 /\ enqueued = 0 /\ procs = <<>>
  /\ lastRelease = NoRelease /\ reaper = NoReaper
TrxIdle == trx = NoTransaction /\ trxCall = <<>> /\ trxRun = NoRun /\ trxDb = NoDb
MigIdle == migAdapter = "" /\ migrations = <<>> /\ history = <<>> /\ migCall = NoMigCall
BreakerIdle ==
  breaker = NoBreaker /\ executions = <<>> /\ lastAdmit = NoAdmit /\ lastDone = NoDone
LaterIdle == RaceIdle /\ TypeIdle /\ PoolIdle /\ TrxIdle /\ MigIdle /\ BreakerIdle

\* what each part leaves alone among the later parts
OutsideRace == <<typeVars, poolVars, trxVars, migVars, breakerVars>>
OutsideRaceIdle ==
  TypeIdle /\ PoolIdle /\ TrxIdle /\ MigIdle /\ BreakerIdle
OutsideType == <<raceVars, poolVars, trxVars, migVars, breakerVars>>
OutsideTypeIdle ==
  RaceIdle /\ PoolIdle /\ TrxIdle /\ MigIdle /\ BreakerIdle
OutsidePool == <<vars, syncVars, raceVars, typeVars, trxVars, migVars, breakerVars>>
OutsidePoolIdle ==
  QueryIdle /\ SyncIdle /\ RaceIdle /\ TypeIdle /\ TrxIdle /\ MigIdle /\ BreakerIdle
OutsideTrx == <<vars, syncVars, raceVars, typeVars, poolVars, migVars, breakerVars>>
OutsideTrxIdle ==
  QueryIdle /\ SyncIdle /\ RaceIdle /\ TypeIdle /\ PoolIdle /\ MigIdle /\ BreakerIdle
OutsideMig == <<vars, syncVars, raceVars, typeVars, poolVars, trxVars, breakerVars>>
OutsideMigIdle ==
  QueryIdle /\ SyncIdle /\ RaceIdle /\ TypeIdle /\ PoolIdle /\ TrxIdle /\ BreakerIdle
OutsideBreaker == <<vars, syncVars, raceVars, typeVars, poolVars, trxVars, migVars>>
OutsideBreakerIdle ==
  QueryIdle /\ SyncIdle /\ RaceIdle /\ TypeIdle /\ PoolIdle /\ TrxIdle /\ MigIdle

\* ------------------------------------------------------------------------
\* Bounds of the explored inputs
\* ------------------------------------------------------------------------
\* number of field keys of a filter without logical group
MaxEntries == 2
\* number of elements of a $in / $nin list
MaxList == 2
\* number of child filters of a $or / $and group
MaxChildren == 2

\* ------------------------------------------------------------------------
\* JavaScript values
\* ------------------------------------------------------------------------
Num(n) == [t |-> "num", n |-> n, s |-> "", items |-> <<>>]
Str(s) == [t |-> "str", n |-> 0, s |-> s, items |-> <<>>]
Null == [t |-> "null", n |-> 0, s |-> "", items |-> <<>>]
Bool(b) == [t |-> "bool", n |-> IF b THEN 1 ELSE 0, s |-> "", items |-> <<>>]
List(items) == [t |-> "list", n |-> 0, s |-> "", items |-> items]

\* the list [base, base+1, ...] of n numbers
NumList(base, n) == List([i \in 1..n |-> Num(base + i - 1)])

\* JavaScript truthiness of a value (used by `value ? a : b`)
Truthy(v) ==
  CASE v.t = "null" -> FALSE
    [] v.t = "bool" -> v.n = 1
    [] v.t = "num" -> v.n # 0
    [] v.t = "str" -> v.s # ""
    [] OTHER -> TRUE

\* String(value) for the values of the model
JSString(v) ==
  CASE v.t = "str" -> v.s
    [] v.t = "num" -> ToString(v.n)
    [] v.t = "null" -> "null"
    [] v.t = "bool" -> (IF v.n = 1 THEN "true" ELSE "false")
    [] OTHER -> ""

\* ------------------------------------------------------------------------
\* Declared filters (QueryFilter objects) explored by the model
\* ------------------------------------------------------------------------
LitEntry(key, v) ==
  [key |-> key, t |-> "lit", lit |-> v, ops |-> <<>>, subs |-> <<>>]
OpsEntry(key, ops) ==
  [key |-> key, t |-> "ops", lit |-> Null, ops |-> ops, subs |-> <<>>]
GroupEntry(key, subs) ==
  [key |-> key, t |-> "group", lit |-> Null, ops |-> <<>>, subs |-> subs]
Op(o, v) == [op |-> o, val |-> v]

FieldNames == <<"age", "name", "tags", "city">>

\* the conditions a field key can carry: [t, lit, ops]
Lit(v) == [t |-> "lit", lit |-> v, ops |-> <<>>]
Ops(ops) == [t |-> "ops", lit |-> Null, ops |-> ops]

TopConds ==
  {Lit(Num(1)), Lit(Null)}
  \cup {Ops(<<Op("$ne", v)>>) : v \in {Num(2), Null}}
  \cup {Ops(<<Op("$gt", Num(3))>>), Ops(<<Op("$gte", Num(18))>>),
        Ops(<<Op("$lt", Num(65))>>), Ops(<<Op("$lte", Num(5))>>)}
  \cup {Ops(<<Op(o, NumList(10, n))>>) : o \in {"$in", "$nin"}, n \in 0..MaxList}
  \cup {Ops(<<Op("$regex", Str("ali"))>>)}
  \cup {Ops(<<Op("$exists", Bool(b))>>) : b \in BOOLEAN}
  \cup {Ops(<<Op("$foo", Num(7))>>)}
  \cup {Ops(<<Op("$gte", Num(18)), Op("$lt", Num(65))>>)}
  \* equality with an array value, and an operator object without operators
  \cup {Lit(List(<<Str("a")>>)), Ops(<<>>)}

SubConds ==
  {Lit(Num(1)), Lit(Null), Ops(<<Op("$gt", Num(3))>>),
   Ops(<<Op("$in", NumList(10, MaxList))>>)}

MkEntry(key, c) == [key |-> key, t |-> c.t, lit |-> c.lit, ops |-> c.ops, subs |-> <<>>]

\* filters without a logical group: the keys FieldNames[1..n] in that order
FlatFilters ==
  UNION {{[i \in 1..n |-> MkEntry(FieldNames[i], cs[i])] : cs \in [1..n -> TopConds]}
         : n \in 0..MaxEntries}

\* the child filters of a logical group
SubFilters ==
  {<<>>}
  \cup {<<MkEntry("age", Lit(Num(1)))>>, <<MkEntry("name", Lit(Null))>>,
        <<MkEntry("name", Ops(<<Op("$in", NumList(10, MaxList))>>))>>,
        <<MkEntry("age", Ops(<<Op("$gt", Num(3))>>)),
          MkEntry("name", Ops(<<Op("$ne", Num(2))>>))>>}
  \cup {<<GroupEntry("$and", <<>>)>>}

Groups ==
  {GroupEntry(k, ch) : k \in {"$or", "$and"},
                       ch \in UNION {[1..n -> SubFilters] : n \in 0..MaxChildren}}

\* filters with one logical group and at most one field key around it
GroupFilters ==
  {<<g>> : g \in Groups}
  \cup {<<MkEntry("age", c), g>> : c \in SubConds, g \in Groups}
  \cup {<<g, MkEntry("age", c)>> : c \in SubConds, g \in Groups}

Filters == FlatFilters \cup GroupFilters

\* ------------------------------------------------------------------------
\* parseQueryFilter
\* ------------------------------------------------------------------------
Cond(field, operator, value, subs) ==
  [field |-> field, operator |-> operator, value |-> value, subs |-> subs]

RECURSIVE parseQueryFilter(_)
parseQueryFilter(f) ==
  IF f = <<>> THEN <<>>
  ELSE LET e == Head(f)
           here ==
             IF e.key = "$or" \/ e.key = "$and"
             THEN <<Cond(e.key, e.key, Null,
                         [i \in 1..Len(e.subs) |-> parseQueryFilter(e.subs[i])])>>
             ELSE IF e.t = "lit" /\ e.lit.t # "list"
             THEN <<Cond(e.key, "$eq", e.lit, <<>>)>>
             ELSE IF e.t = "lit"
             \* an array is an object: Object.entries gives its indices as keys
             THEN [i \in 1..Len(e.lit.items) |->
                     Cond(e.key, ToString(i - 1), e.lit.items[i], <<>>)]
             ELSE [i \in 1..Len(e.ops) |-> Cond(e.key, e.ops[i].op, e.ops[i].val, <<>>)]
       IN here \o parseQueryFilter(Tail(f))

\* ------------------------------------------------------------------------
\* toSQLWhere
\* ------------------------------------------------------------------------
\* `${paramPrefix}${paramIndex++}`: the text; the caller advances paramIndex
getParamPlaceholder(paramPrefix, paramIndex) == paramPrefix \o ToString(paramIndex)

\* Array.prototype.pop: removes the last element, no effect on an empty array
Pop(s) == IF s = <<>> THEN <<>> ELSE SubSeq(s, 1, Len(s) - 1)

\* parts.join(sep) on token sequences
RECURSIVE Join(_, _)
Join(parts, sep) ==
  IF parts = <<>> THEN <<>>
  ELSE IF Len(parts) = 1 THEN parts[1]
  ELSE parts[1] \o sep \o Join(Tail(parts), sep)

\* result of one case of the operator switch: the parts it pushed and the
\* closure state (params, paramIndex) after it
R(parts, ps, idx) == [parts |-> parts, params |-> ps, paramIndex |-> idx]

\* eqCase without the null test: null is bound like any other value
eqCase_BindsNull(field, sqlop, nullText, value, placeholder, st) ==
  R(<< <<field, sqlop, placeholder>> >>, Append(st.params, value), st.paramIndex)

\* case '$eq' / '$ne' (sqlop "=" / "!=", nullText "IS NULL" / "IS NOT NULL")
eqCase(field, sqlop, nullText, value, placeholder, st) ==
  IF value.t = "null"
  THEN R(<< <<field>> \o nullText >>, st.params, st.paramIndex)
  ELSE R(<< <<field, sqlop, placeholder>> >>, Append(st.params, value), st.paramIndex)

\* case '$gt' / '$gte' / '$lt' / '$lte'
cmpCase(field, sqlop, value, placeholder, st) ==
  R(<< <<field, sqlop, placeholder>> >>, Append(st.params, value), st.paramIndex)

\* case '$in' / '$nin' (kw <<"IN">> / <<"NOT", "IN">>)
inCase(field, kw, value, paramPrefix, st) ==
  IF value.t = "list" /\ Len(value.items) > 0
  THEN LET n == Len(value.items)
           \* value.map(() => getParamPlaceholder())
           placeholders ==
             [i \in 1..n |-> <<getParamPlaceholder(paramPrefix, st.paramIndex + i - 1)>>]
           \* params.pop(); paramIndex--
           popped == Pop(st.params)
           \* value.forEach(v => { params.push(v); paramIndex++ })
       IN R(<< <<field>> \o kw \o <<"(">> \o Join(placeholders, <<",">>) \o <<")">> >>,
            popped \o value.items,
            (st.paramIndex + n) - 1 + n)
  ELSE R(<<>>, st.params, st.paramIndex)

\* regexCase binding the pattern without the surrounding wildcards
regexCase_NoWildcards(field, value, placeholder, st) ==
  R(<< <<field, "LIKE", placeholder>> >>, Append(st.params, Str(JSString(value))),
    st.paramIndex)

\* case '$regex'
regexCase(field, value, placeholder, st) ==
  LET pattern == JSString(value)
  IN R(<< <<field, "LIKE", placeholder>> >>,
       Append(st.params, Str("%" \o pattern \o "%")), st.paramIndex)

\* case '$exists'
existsCase(field, value, st) ==
  R(<< IF Truthy(value) THEN <<field, "IS", "NOT", "NULL">> ELSE <<field, "IS", "NULL">> >>,
    st.params, st.paramIndex)

\* the switch (operator) of processConditions; no default case
leafCase(c, placeholder, paramPrefix, st) ==
  CASE c.operator = "$eq" -> eqCase(c.field, "=", <<"IS", "NULL">>, c.value, placeholder, st)
    [] c.operator = "$ne" -> eqCase(c.field, "!=", <<"IS", "NOT", "NULL">>, c.value, placeholder, st)
    [] c.operator = "$gt" -> cmpCase(c.field, ">", c.value, placeholder, st)
    [] c.operator = "$gte" -> cmpCase(c.field, ">=", c.value, placeholder, st)
    [] c.operator = "$lt" -> cmpCase(c.field, "<", c.value, placeholder, st)
    [] c.operator = "$lte" -> cmpCase(c.field, "<=", c.value, placeholder, st)
    [] c.operator = "$in" -> inCase(c.field, <<"IN">>, c.value, paramPrefix, st)
    [] c.operator = "$nin" -> inCase(c.field, <<"NOT", "IN">>, c.value, paramPrefix, st)
    [] c.operator = "$regex" -> regexCase(c.field, c.value, placeholder, st)
    [] c.operator = "$exists" -> existsCase(c.field, c.value, st)
    [] OTHER -> R(<<>>, st.params, st.paramIndex)

\* one leaf: `const placeholder = getParamPlaceholder()` and then the switch
processLeaf(c, paramPrefix, st) ==
  leafCase(c, getParamPlaceholder(paramPrefix, st.paramIndex), paramPrefix,
           [params |-> st.params, paramIndex |-> st.paramIndex + 1])

\* the part pushed for a logical group: nothing when no child clause is left
groupPart(clauses, kw) ==
  IF clauses # <<>> THEN << <<"(">> \o Join(clauses, <<kw>>) \o <<")">> >> ELSE <<>>

RECURSIVE processLoop(_, _, _)
RECURSIVE mapChildren(_, _, _)
\* the for loop of processConditions over conds; acc = [parts, params, paramIndex]
processLoop(conds, paramPrefix, acc) ==
  IF conds = <<>> THEN acc
  ELSE LET c == Head(conds)
           r == IF c.operator = "$or" \/ c.operator = "$and"
                THEN LET m == mapChildren(c.subs, paramPrefix,
                                          R(<<>>, acc.params, acc.paramIndex))
                     IN R(groupPart(m.parts, IF c.operator = "$or" THEN "OR" ELSE "AND"),
                          m.params, m.paramIndex)
                ELSE processLeaf(c, paramPrefix, acc)
       IN processLoop(Tail(conds), paramPrefix,
                      R(acc.parts \o r.parts, r.params, r.paramIndex))

\* value.map(c => processConditions(c, 'AND')).filter(c => c)
mapChildren(children, paramPrefix, acc) ==
  IF children = <<>> THEN acc
  ELSE LET r == processLoop(Head(children), paramPrefix,
                            R(<<>>, acc.params, acc.paramIndex))
           text == Join(r.parts, <<"AND">>)
       IN mapChildren(Tail(children), paramPrefix,
                      R(IF text # <<>> THEN Append(acc.parts, text) ELSE acc.parts,
                        r.params, r.paramIndex))

\* processConditions(conds, logicalOp): parts.join(` ${logicalOp} `)
processConditions(conds, logicalOp, paramPrefix, st) ==
  LET r == processLoop(conds, paramPrefix, R(<<>>, st.params, st.paramIndex))
  IN [text |-> Join(r.parts, <<logicalOp>>), params |-> r.params,
      paramIndex |-> r.paramIndex]

toSQLWhere(conds, paramPrefix) ==
  LET r == processConditions(conds, "AND", paramPrefix,
                             [params |-> <<>>, paramIndex |-> 1])
  IN [where |-> IF r.text = <<>> THEN <<"1=1">> ELSE r.text, params |-> r.params]

\* an upper bound of the placeholder indices the explored filters can issue
MaxIndex == (MaxEntries + 2 * MaxChildren + 2) * (2 * MaxList + 2)

\* the texts matched by /\?\d+/ among the tokens of the explored clauses
IndexedMarks == {"?" \o ToString(i) : i \in 0..MaxIndex}

\* where.replace(/\?\d+/g, '?')
replaceIndexed(tokens) ==
  [i \in 1..Len(tokens) |-> IF tokens[i] \in IndexedMarks THEN "?" ELSE tokens[i]]

toMySQLWhere(conds) ==
  LET result == toSQLWhere(conds, "?")
  IN [where |-> replaceIndexed(result.where), params |-> result.params]

toSQLiteWhere(conds) ==
  LET result == toSQLWhere(conds, "?")
  IN [where |-> replaceIndexed(result.where), params |-> result.params]

\* ------------------------------------------------------------------------
\* toMongoFilter
\* ------------------------------------------------------------------------
HasKey(obj, key) == \E i \in 1..Len(obj) : obj[i].key = key
IndexOfKey(obj, key) == CHOOSE i \in 1..Len(obj) : obj[i].key = key

\* obj[key] = entry: an existing key keeps its position, a new key is appended
SetKey(obj, entry) ==
  IF HasKey(obj, entry.key)
  THEN [obj EXCEPT ![IndexOfKey(obj, entry.key)] = entry]
  ELSE Append(obj, entry)

\* `(filter[field] as Record)[operator] = value` after `if (!filter[field])
\* filter[field] = {}`; acc = [filter, error].  A truthy primitive already
\* stored under the field cannot take a property (TypeError in a module,
\* which is strict code).
setOperator(acc, field, operator, value) ==
  IF ~HasKey(acc.filter, field)
  THEN [acc EXCEPT !.filter = Append(@, OpsEntry(field, <<Op(operator, value)>>))]
  ELSE LET i == IndexOfKey(acc.filter, field)
           e == acc.filter[i]
       IN IF e.t = "ops"
          THEN [acc EXCEPT !.filter[i].ops =
                  IF \E j \in 1..Len(e.ops) : e.ops[j].op = operator
                  THEN [e.ops EXCEPT ![CHOOSE j \in 1..Len(e.ops) : e.ops[j].op = operator]
                                       = Op(operator, value)]
                  ELSE Append(e.ops, Op(operator, value))]
          ELSE IF e.t = "lit" /\ ~Truthy(e.lit)
          THEN [acc EXCEPT !.filter[i] = OpsEntry(field, <<Op(operator, value)>>)]
          ELSE [acc EXCEPT !.error = TRUE]

RECURSIVE mongoLoop(_, _)
RECURSIVE mongoChildren(_)
\* the for loop of toMongoFilter; acc = [filter, error]
mongoLoop(conds, acc) ==
  IF conds = <<>> \/ acc.error THEN acc
  ELSE LET c == Head(conds)
           next ==
             IF c.operator = "$or" \/ c.operator = "$and"
             THEN LET m == mongoChildren(c.subs)
                  IN [filter |-> SetKey(acc.filter, GroupEntry(c.operator, m.filters)),
                      error |-> m.error]
             ELSE IF c.operator = "$eq"
             THEN [acc EXCEPT !.filter = SetKey(@, LitEntry(c.field, c.value))]
             ELSE setOperator(acc, c.field, c.operator, c.value)
       IN mongoLoop(Tail(conds), next)

\* value.map(conds => toMongoFilter(conds))
mongoChildren(children) ==
  IF children = <<>> THEN [filters |-> <<>>, error |-> FALSE]
  ELSE LET h == mongoLoop(Head(children), [filter |-> <<>>, error |-> FALSE])
           t == mongoChildren(Tail(children))
       IN [filters |-> <<h.filter>> \o t.filters, error |-> h.error \/ t.error]

toMongoFilter(conds) == mongoLoop(conds, [filter |-> <<>>, error |-> FALSE])

\* ------------------------------------------------------------------------
\* Declared updates (UpdateFilter objects) explored by the model
\* ------------------------------------------------------------------------
\* number of top-level keys of an update with operators
MaxUpdateKeys == 2

KV(k, v) == [key |-> k, val |-> v]
\* a top-level entry of an update: a field with its value, or an operator key
\* with its object
UField(k, v) == [key |-> k, val |-> v, obj |-> <<>>]
UOp(k, obj) == [key |-> k, val |-> Null, obj |-> obj]

OperatorEntries ==
  {UOp("$set", <<KV("name", Str("X"))>>),
   UOp("$set", <<KV("name", Str("X")), KV("city", Str("Y"))>>),
   UOp("$set", <<>>),
   UOp("$inc", <<KV("age", Num(1))>>),
   UOp("$unset", <<KV("city", Str(""))>>),
   UOp("$push", <<KV("tags", Str("t"))>>),
   UOp("$pull", <<KV("tags", Str("t"))>>),
   UOp("$addToSet", <<KV("tags", Str("u"))>>),
   UOp("$foo", <<KV("age", Num(9))>>)}

DistinctKeys(u) == \A i, j \in 1..Len(u) : i # j => u[i].key # u[j].key

Updates ==
  {<<>>, <<UField("name", Str("X"))>>,
   <<UField("name", Str("X")), UField("age", Num(30))>>,
   <<UField("name", Str("X")), UOp("$inc", <<KV("age", Num(1))>>)>>}
  \cup UNION {{u \in [1..n -> OperatorEntries] : DistinctKeys(u)} : n \in 1..MaxUpdateKeys}

\* the filters the update operations are explored with
UpdateFilters ==
  {<<>>,
   <<MkEntry("age", Lit(Num(1)))>>,
   <<MkEntry("age", Ops(<<Op("$gte", Num(18))>>)), MkEntry("name", Lit(Null))>>,
   <<MkEntry("age", Lit(Num(1))), MkEntry("name", Ops(<<Op("$in", NumList(10, MaxList))>>))>>,
   <<MkEntry("age", Lit(Null)), MkEntry("name", Lit(Num(1)))>>,
   <<MkEntry("age", Ops(<<Op("$exists", Bool(TRUE))>>)), MkEntry("name", Lit(Num(1)))>>}

\* ------------------------------------------------------------------------
\* parseUpdateFilter
\* ------------------------------------------------------------------------
\* k.startsWith('$'), on the keys of the explored updates
StartsWithDollar(k) ==
  k \in {"$set", "$inc", "$unset", "$push", "$pull", "$addToSet", "$foo"}

RECURSIVE Assign(_, _)
\* Object.assign(target, source)
Assign(target, source) ==
  IF source = <<>> THEN target
  ELSE Assign(SetKey(target, Head(source)), Tail(source))

ObjOf(u, key) == u[IndexOfKey(u, key)].obj

parseUpdateFilter(u) ==
  LET hasOperators == \E i \in 1..Len(u) : StartsWithDollar(u[i].key)
      pushes == IF HasKey(u, "$push") THEN ObjOf(u, "$push") ELSE <<>>
  IN IF ~hasOperators
     THEN [sets |-> [i \in 1..Len(u) |-> KV(u[i].key, u[i].val)],
           increments |-> <<>>, unsets |-> <<>>, pushes |-> <<>>, pulls |-> <<>>]
     ELSE [sets |-> IF HasKey(u, "$set") THEN Assign(<<>>, ObjOf(u, "$set")) ELSE <<>>,
           increments |-> IF HasKey(u, "$inc") THEN ObjOf(u, "$inc") ELSE <<>>,
           unsets |-> IF HasKey(u, "$unset")
                      THEN [i \in 1..Len(ObjOf(u, "$unset")) |-> ObjOf(u, "$unset")[i].key]
                      ELSE <<>>,
           pushes |-> IF HasKey(u, "$addToSet")
                      THEN Assign(pushes, ObjOf(u, "$addToSet")) ELSE pushes,
           pulls |-> IF HasKey(u, "$pull") THEN ObjOf(u, "$pull") ELSE <<>>]

\* ------------------------------------------------------------------------
\* toSQLUpdate (used by the PostgreSQL adapter)
\* ------------------------------------------------------------------------
\* the three loops of toSQLUpdate: [clauses, params], $set then $inc then $unset
sqlUpdateClauses(parsed, paramPrefix, first) ==
  LET ns == Len(parsed.sets)
      setC == [i \in 1..ns |->
                 <<parsed.sets[i].key, "=", paramPrefix \o ToString(first + i - 1)>>]
      incC == [i \in 1..Len(parsed.increments) |->
                 <<parsed.increments[i].key, "=", parsed.increments[i].key, "+",
                   paramPrefix \o ToString(first + ns + i - 1)>>]
      unsetC == [i \in 1..Len(parsed.unsets) |-> <<parsed.unsets[i], "=", "NULL">>]
  IN [clauses |-> setC \o incC \o unsetC,
      params |-> [i \in 1..ns |-> parsed.sets[i].val]
                 \o [i \in 1..Len(parsed.increments) |-> parsed.increments[i].val]]

\* result [error, sql, params]; error is the message of the thrown Error
toSQLUpdate(tableName, u, whereClause, whereParams, paramPrefix) ==
  LET parsed == parseUpdateFilter(u)
      c == sqlUpdateClauses(parsed, paramPrefix, Len(whereParams) + 1)
  IN IF Len(c.clauses) = 0
     THEN [error |-> "No fields to update", sql |-> <<>>, params |-> <<>>]
     ELSE [error |-> "",
           sql |-> <<"UPDATE", tableName, "SET">> \o Join(c.clauses, <<",">>)
                   \o <<"WHERE">> \o whereClause,
           params |-> whereParams \o c.params]

\* ------------------------------------------------------------------------
\* The SET clauses of the MySQL and SQLite adapters
\* ------------------------------------------------------------------------
\* JSON.stringify of an array of the model's values
RECURSIVE jsonItems(_)
jsonItems(items) ==
  IF items = <<>> THEN ""
  ELSE (IF Head(items).t = "str" THEN "\"" \o Head(items).s \o "\"" ELSE JSString(Head(items)))
       \o (IF Len(items) > 1 THEN "," ELSE "") \o jsonItems(Tail(items))
JSONStringify(v) == Str("[" \o jsonItems(v.items) \o "]")

\* mysql: typeof value === 'object' && value !== null ? JSON.stringify(value) : value
mysqlValue(v) == IF v.t = "list" THEN JSONStringify(v) ELSE v

\* sqlite: serializeValue
serializeValue(v) ==
  IF v.t = "bool" THEN Num(v.n)
  ELSE IF v.t = "list" THEN JSONStringify(v)
  ELSE v

\* the grave accent (U+0060) that quotes MySQL identifiers, written as its
\* escape because a TLA+ string cannot hold the character itself
Backtick == "\\x60"

\* the three loops shared in shape by both adapters: [clauses, params];
\* the adapter decides the identifier quote and the value conversion of the
\* $set loop
adapterSetClauses(parsed, adapter) ==
  LET q == IF adapter = "mysql" THEN Backtick ELSE "\""
      Ser(v) == IF adapter = "mysql" THEN mysqlValue(v) ELSE serializeValue(v)
      id(k) == q \o k \o q
      setC == [i \in 1..Len(parsed.sets) |-> <<id(parsed.sets[i].key), "=", "?">>]
      incC == [i \in 1..Len(parsed.increments) |->
                 <<id(parsed.increments[i].key), "=", id(parsed.increments[i].key), "+", "?">>]
      unsetC == [i \in 1..Len(parsed.unsets) |-> <<id(parsed.unsets[i]), "=", "NULL">>]
  IN [clauses |-> setC \o incC \o unsetC,
      params |-> [i \in 1..Len(parsed.sets) |-> Ser(parsed.sets[i].val)]
                 \o [i \in 1..Len(parsed.increments) |-> parsed.increments[i].val]]

\* mysqlSetClauses with the $inc loop placed before the $set loop
mysqlSetClauses_IncrementsFirst(parsed) ==
  LET id(k) == Backtick \o k \o Backtick
  IN [clauses |->
        [i \in 1..Len(parsed.increments) |->
           <<id(parsed.increments[i].key), "=", id(parsed.increments[i].key), "+", "?">>]
        \o [i \in 1..Len(parsed.sets) |-> <<id(parsed.sets[i].key), "=", "?">>]
        \o [i \in 1..Len(parsed.unsets) |-> <<id(parsed.unsets[i]), "=", "NULL">>],
      params |-> [i \in 1..Len(parsed.increments) |-> parsed.increments[i].val]
                 \o [i \in 1..Len(parsed.sets) |-> mysqlValue(parsed.sets[i].val)]]

mysqlSetClauses(parsed) == adapterSetClauses(parsed, "mysql")
sqliteSetClauses(parsed) == adapterSetClauses(parsed, "sqlite")

\* ------------------------------------------------------------------------
\* MongoDBAdapter.buildUpdateDocument
\* ------------------------------------------------------------------------
buildUpdateDocument(u) ==
  LET parsed == parseUpdateFilter(u)
  IN (IF Len(parsed.sets) > 0 THEN <<UOp("$set", parsed.sets)>> ELSE <<>>)
     \o (IF Len(parsed.increments) > 0 THEN <<UOp("$inc", parsed.increments)>> ELSE <<>>)
     \o (IF Len(parsed.unsets) > 0
         THEN <<UOp("$unset", [i \in 1..Len(parsed.unsets) |-> KV(parsed.unsets[i], Str(""))])>>
         ELSE <<>>)
     \o (IF Len(parsed.pushes) > 0 THEN <<UOp("$push", parsed.pushes)>> ELSE <<>>)
     \o (IF Len(parsed.pulls) > 0 THEN <<UOp("$pull", parsed.pulls)>> ELSE <<>>)

\* ------------------------------------------------------------------------
\* The adapter methods as a state machine
\* ------------------------------------------------------------------------
Collection == "users"
\* the _id of the row findOne returned
ExistingId == Str("id1")

Init ==
  /\ pc = "start"
  /\ \/ op = "find" /\ filter \in Filters /\ update = <<>> /\ matched = FALSE
     \/ /\ op \in {"updateOne", "updateMany"}
        /\ filter \in UpdateFilters
        /\ update \in Updates
        /\ matched \in BOOLEAN
  /\ conditions = <<>>
  /\ dialect = ""
  /\ where = <<>>
  /\ params = <<>>
  /\ mongoFilter = <<>>
  /\ sql = <<>>
  /\ sqlParams = <<>>
  /\ mongoUpdate = <<>>
  /\ outcome = ""
  /\ adapterName = "" /\ schema = <<>> /\ db = NoTable /\ synced = FALSE
  /\ connection = NotConnected
  /\ prevSync = NoCall /\ lastSync = NoCall
  /\ LaterIdle

ParseQueryFilter ==
  /\ pc = "start"
  /\ conditions' = parseQueryFilter(filter)
  /\ pc' = "parsed"
  /\ UNCHANGED <<op, filter, update, matched, dialect, where, params, mongoFilter,
                 sql, sqlParams, mongoUpdate, outcome, syncVars, laterVars>>

\* the WHERE clause r compiled by the adapter d; find ends there
Compiled(d, r) ==
  /\ dialect' = d
  /\ where' = r.where
  /\ params' = r.params
  /\ pc' = IF op = "find" THEN "done" ELSE "where"
  /\ outcome' = IF op = "find" THEN "ok" ELSE ""
  /\ UNCHANGED <<op, filter, update, matched, conditions, mongoFilter,
                 sql, sqlParams, mongoUpdate, syncVars, laterVars>>

ToSQLWhere == pc = "parsed" /\ Compiled("postgres", toSQLWhere(conditions, "$"))

ToMySQLWhere == pc = "parsed" /\ Compiled("mysql", toMySQLWhere(conditions))

ToSQLiteWhere == pc = "parsed" /\ Compiled("sqlite", toSQLiteWhere(conditions))

ToMongoFilter ==
  /\ pc = "parsed"
  /\ LET r == toMongoFilter(conditions)
     IN /\ mongoFilter' = r.filter
        /\ pc' = IF op = "find" \/ r.error THEN "done" ELSE "where"
        /\ outcome' = IF r.error THEN "TypeError" ELSE IF op = "find" THEN "ok" ELSE ""
  /\ dialect' = "mongodb"
  /\ UNCHANGED <<op, filter, update, matched, conditions, where, params,
                 sql, sqlParams, mongoUpdate, syncVars, laterVars>>

\* the method returns with outcome o, having handed (s, ps) to the driver
Finish(o, s, ps) ==
  /\ pc' = "done"
  /\ outcome' = o
  /\ sql' = s
  /\ sqlParams' = ps
  /\ UNCHANGED <<op, filter, update, matched, conditions, dialect, where, params,
                 mongoFilter, mongoUpdate, syncVars, laterVars>>

\* sql.replace(collection, `"${collection}"`): the first occurrence
replaceFirst(tokens, name, by) ==
  IF \E i \in 1..Len(tokens) : tokens[i] = name
  THEN LET i == CHOOSE i \in 1..Len(tokens) :
                  tokens[i] = name /\ \A j \in 1..(i - 1) : tokens[j] # name
       IN [tokens EXCEPT ![i] = by]
  ELSE tokens

Quoted(name) == "\"" \o name \o "\""

PostgresUpdateOne ==
  /\ pc = "where" /\ op = "updateOne" /\ dialect = "postgres"
  /\ IF ~matched THEN Finish("no-match", <<>>, <<>>)
     ELSE LET r == toSQLUpdate(Collection, update, <<Quoted("_id"), "=", "$1">>,
                               <<ExistingId>>, "$")
          IN IF r.error # "" THEN Finish(r.error, <<>>, <<>>)
             ELSE Finish("ok", replaceFirst(r.sql, Collection, Quoted(Collection)), r.params)

PostgresUpdateMany ==
  /\ pc = "where" /\ op = "updateMany" /\ dialect = "postgres"
  /\ IF ~matched THEN Finish("no-match", <<>>, <<>>)
     ELSE LET r == toSQLUpdate(Quoted(Collection), update, where, params, "$")
          IN IF r.error # "" THEN Finish(r.error, <<>>, <<>>)
             ELSE Finish("ok", r.sql, r.params)

\* updateOne of the MySQL and SQLite adapters, c their SET clauses, q the quote
AdapterUpdateOne(c, q) ==
  IF ~matched THEN Finish("no-match", <<>>, <<>>)
  ELSE IF Len(c.clauses) = 0 THEN Finish("noop", <<>>, <<>>)
  ELSE Finish("ok",
              <<"UPDATE", q \o Collection \o q, "SET">> \o Join(c.clauses, <<",">>)
                \o <<"WHERE", q \o "_id" \o q, "=", "?">>,
              Append(c.params, ExistingId))

\* updateMany of the MySQL and SQLite adapters
AdapterUpdateMany(c, q) ==
  IF Len(c.clauses) = 0 THEN Finish("noop", <<>>, <<>>)
  ELSE Finish("ok",
              <<"UPDATE", q \o Collection \o q, "SET">> \o Join(c.clauses, <<",">>)
                \o <<"WHERE">> \o where,
              c.params \o params)

MySQLUpdateOne ==
  /\ pc = "where" /\ op = "updateOne" /\ dialect = "mysql"
  /\ AdapterUpdateOne(mysqlSetClauses(parseUpdateFilter(update)), Backtick)

MySQLUpdateMany ==
  /\ pc = "where" /\ op = "updateMany" /\ dialect = "mysql"
  /\ AdapterUpdateMany(mysqlSetClauses(parseUpdateFilter(update)), Backtick)

SQLiteUpdateOne ==
  /\ pc = "where" /\ op = "updateOne" /\ dialect = "sqlite"
  /\ AdapterUpdateOne(sqliteSetClauses(parseUpdateFilter(update)), "\"")

SQLiteUpdateMany ==
  /\ pc = "where" /\ op = "updateMany" /\ dialect = "sqlite"
  /\ AdapterUpdateMany(sqliteSetClauses(parseUpdateFilter(update)), "\"")

\* updateOne / updateMany of the MongoDB adapter: the document built from the
\* update, empty or not, is handed to the driver
MongoUpdate ==
  /\ pc = "where" /\ dialect = "mongodb"
  /\ mongoUpdate' = buildUpdateDocument(update)
  /\ pc' = "done"
  /\ outcome' = "ok"
  /\ UNCHANGED <<op, filter, update, matched, conditions, dialect, where, params,
                 mongoFilter, sql, sqlParams, syncVars, laterVars>>

Next ==
  \/ ParseQueryFilter
  \/ ToSQLWhere
  \/ ToMySQLWhere
  \/ ToSQLiteWhere
  \/ ToMongoFilter
  \/ PostgresUpdateOne
  \/ PostgresUpdateMany
  \/ MySQLUpdateOne
  \/ MySQLUpdateMany
  \/ SQLiteUpdateOne
  \/ SQLiteUpdateMany
  \/ MongoUpdate

Spec == Init /\ [][Next]_vars

\* ------------------------------------------------------------------------
\* Reading a filter and a compiled clause
\* ------------------------------------------------------------------------
SQLDialects == {"postgres", "mysql", "sqlite"}

\* a WHERE clause has been compiled by a relational adapter
SQLCompiled == pc \in {"where", "done"} /\ dialect \in SQLDialects

Leaf(field, o, v) == [field |-> field, op |-> o, val |-> v]

RECURSIVE LeavesOf(_)
RECURSIVE LeavesOfAll(_)
\* the leaves of a declared filter in visitation order, groups expanded
LeavesOf(f) ==
  IF f = <<>> THEN <<>>
  ELSE LET e == Head(f)
           here == IF e.t = "group" THEN LeavesOfAll(e.subs)
                   ELSE IF e.t = "lit" THEN <<Leaf(e.key, "$eq", e.lit)>>
                   ELSE [i \in 1..Len(e.ops) |-> Leaf(e.key, e.ops[i].op, e.ops[i].val)]
       IN here \o LeavesOf(Tail(f))
LeavesOfAll(fs) == IF fs = <<>> THEN <<>> ELSE LeavesOf(Head(fs)) \o LeavesOfAll(Tail(fs))

IsFlat(f) == \A i \in 1..Len(f) : f[i].t # "group"

SupportedOperators ==
  {"$eq", "$ne", "$gt", "$gte", "$lt", "$lte", "$in", "$nin", "$regex", "$exists"}

\* null-equality, null-inequality and $exists leaves
NullLeaf(l) == (l.op \in {"$eq", "$ne"} /\ l.val.t = "null") \/ l.op = "$exists"
\* scalar comparison and pattern leaves
ScalarLeaf(l) ==
  \/ l.op \in {"$eq", "$ne"} /\ l.val.t \notin {"null", "list"}
  \/ l.op \in {"$gt", "$gte", "$lt", "$lte", "$regex"}
\* member-of and not-member-of leaves with at least one element
ListLeaf(l) == l.op \in {"$in", "$nin"} /\ l.val.t = "list" /\ Len(l.val.items) > 0

\* the number of values a leaf binds
ValueCount(l) ==
  IF ScalarLeaf(l) THEN 1 ELSE IF ListLeaf(l) THEN Len(l.val.items) ELSE 0

RECURSIVE SumValues(_)
SumValues(ls) == IF ls = <<>> THEN 0 ELSE ValueCount(Head(ls)) + SumValues(Tail(ls))

DollarMarks == {"$" \o ToString(i) : i \in 0..MaxIndex}
IsDollarMark(tok) == tok \in DollarMarks
IsPlaceholder(tok) == tok = "?" \/ tok \in DollarMarks

Count(tokens, Test(_)) == Cardinality({i \in 1..Len(tokens) : Test(tokens[i])})
IsNULL(tok) == tok = "NULL"

RECURSIVE Split(_, _)
\* the pieces of a token sequence between the occurrences of sep
Split(tokens, sep) ==
  IF \E i \in 1..Len(tokens) : tokens[i] = sep
  THEN LET i == CHOOSE i \in 1..Len(tokens) :
                  tokens[i] = sep /\ \A j \in 1..(i - 1) : tokens[j] # sep
       IN <<SubSeq(tokens, 1, i - 1)>> \o Split(SubSeq(tokens, i + 1, Len(tokens)), sep)
  ELSE <<tokens>>

RECURSIVE Render(_)
\* the SQL text of a token sequence
Render(tokens) ==
  IF tokens = <<>> THEN ""
  ELSE IF Len(tokens) = 1 THEN tokens[1]
  ELSE tokens[1]
       \o (IF tokens[1] = "(" \/ tokens[2] \in {")", ","} THEN "" ELSE " ")
       \o Render(Tail(tokens))

SqlOperator(o) ==
  CASE o = "$eq" -> "=" [] o = "$ne" -> "!=" [] o = "$gt" -> ">" [] o = "$gte" -> ">="
    [] o = "$lt" -> "<" [] o = "$lte" -> "<=" [] o = "$regex" -> "LIKE" [] OTHER -> "?"

\* ------------------------------------------------------------------------
\* C1..C5: placeholders and parameters of the WHERE compilers
\* ------------------------------------------------------------------------

\* C1: in a clause compiled with the positional '$' prefix the placeholders,
\* read left to right, are exactly $1, $2, ..., $n with n = params.length.
C1_PlaceholdersMatchParams ==
  (SQLCompiled /\ dialect = "postgres") =>
    LET ph == SelectSeq(where, IsDollarMark)
    IN /\ Len(ph) = Len(params)
       /\ \A i \in 1..Len(ph) : ph[i] = "$" \o ToString(i)

\* C2: for every filter and every SQL dialect the params list has one entry
\* per value-bearing leaf (one per scalar comparison or pattern leaf, one per
\* element of a $in/$nin list, none for null and $exists leaves).
C2_ParamsCountValueLeaves ==
  SQLCompiled => Len(params) = SumValues(LeavesOf(filter))

\* C3: a $in/$nin leaf with N >= 1 values compiles to field IN (p1, ..., pN)
\* with N placeholders and binds its N values as consecutive params after the
\* parameters of the leaves that precede it, which stay in place.
C3_InListBindsAfterPrior ==
  (SQLCompiled /\ filter # <<>> /\ IsFlat(filter)
     /\ Len(filter[Len(filter)].ops) = 1
     /\ ListLeaf(Leaf("", filter[Len(filter)].ops[1].op, filter[Len(filter)].ops[1].val))) =>
    LET last == filter[Len(filter)]
        items == last.ops[1].val.items
        before == toSQLWhere(parseQueryFilter(SubSeq(filter, 1, Len(filter) - 1)), "$")
        clause == Split(where, "AND")[Len(Split(where, "AND"))]
        kw == IF last.ops[1].op = "$in" THEN <<"IN">> ELSE <<"NOT", "IN">>
    IN /\ SubSeq(clause, 1, Len(kw) + 2) = <<last.key>> \o kw \o <<"(">>
       /\ Count(clause, IsPlaceholder) = Len(items)
       /\ params = before.params \o items

\* C4: a null-equality, null-inequality or $exists leaf compiles to
\* IS NULL / IS NOT NULL, and adds no placeholder to the clause and no entry
\* to params.
C4_NullLeavesBindNothing ==
  SQLCompiled =>
    LET ls == LeavesOf(filter)
    IN /\ Count(where, IsPlaceholder) = SumValues(ls)
       /\ Count(where, IsNULL) = Cardinality({i \in 1..Len(ls) : NullLeaf(ls[i])})
       /\ (\A i \in 1..Len(ls) : ~ListLeaf(ls[i])) => Len(params) = SumValues(ls)
       /\ (IsFlat(filter) /\ ls # <<>> /\ \A i \in 1..Len(ls) : ValueCount(ls[i]) > 0 \/ NullLeaf(ls[i])) =>
            LET parts == Split(where, "AND")
            IN /\ Len(parts) = Len(ls)
               /\ \A i \in 1..Len(ls) :
                    NullLeaf(ls[i]) =>
                      parts[i] = <<ls[i].field>> \o
                        (IF ls[i].op = "$eq" \/ (ls[i].op = "$exists" /\ ls[i].val = Bool(FALSE))
                         THEN <<"IS", "NULL">> ELSE <<"IS", "NOT", "NULL">>)

C4_Witness ==
  /\ pc = "done" /\ op = "find" /\ dialect = "postgres"
  /\ where = <<"age", "IS", "NULL", "AND", "name", "=", "$2">>
  /\ params = <<Num(1)>>

\* the filter {age: {$gte: 18}, name: {$regex: "ali"}}
ExampleFilter ==
  <<OpsEntry("age", <<Op("$gte", Num(18))>>), OpsEntry("name", <<Op("$regex", Str("ali"))>>)>>

\* C5: a filter of scalar comparison and pattern leaves compiles, for the
\* positional dialect, to its leaves in key order joined by AND, the i-th with
\* its SQL operator and $i, params in the same order, a pattern bound as
\* %value%; the example yields "age >= $1 AND name LIKE $2", [18, "%ali%"].
C5_ScalarLeavesInOrder ==
  (SQLCompiled /\ dialect = "postgres") =>
    LET ls == LeavesOf(filter)
    IN /\ (IsFlat(filter) /\ ls # <<>> /\ \A i \in 1..Len(ls) : ScalarLeaf(ls[i])) =>
            /\ where = Join([i \in 1..Len(ls) |->
                               <<ls[i].field, SqlOperator(ls[i].op), "$" \o ToString(i)>>],
                            <<"AND">>)
            /\ params = [i \in 1..Len(ls) |->
                           IF ls[i].op = "$regex" THEN Str("%" \o ls[i].val.s \o "%")
                           ELSE ls[i].val]
       /\ filter = ExampleFilter =>
            /\ Render(where) = "age >= $1 AND name LIKE $2"
            /\ params = <<Num(18), Str("%ali%")>>

C5_Witness ==
  /\ pc = "done" /\ op = "find" /\ dialect = "postgres"
  /\ filter = ExampleFilter
  /\ Render(where) = "age >= $1 AND name LIKE $2"

\* ------------------------------------------------------------------------
\* What a compiled filter selects: SQL three-valued evaluation of a clause on
\* a row ("T", "F", "U" unknown, "E" statement rejected), and matching of a
\* native filter against a document.  A row/document gives each field a
\* number or null (for a document: the field is missing).
\* ------------------------------------------------------------------------
RowFields == {"age", "name"}
RowValues == {Null, Num(1), Num(10)}
Rows == [RowFields -> RowValues]

And3(a, b) ==
  IF a = "E" \/ b = "E" THEN "E" ELSE IF a = "F" \/ b = "F" THEN "F"
  ELSE IF a = "U" \/ b = "U" THEN "U" ELSE "T"
Or3(a, b) ==
  IF a = "E" \/ b = "E" THEN "E" ELSE IF a = "T" \/ b = "T" THEN "T"
  ELSE IF a = "U" \/ b = "U" THEN "U" ELSE "F"
Not3(a) == IF a = "T" THEN "F" ELSE IF a = "F" THEN "T" ELSE a

Unbound == [t |-> "unbound", n |-> 0, s |-> "", items |-> <<>>]

\* the value bound to a placeholder: $i is params[i], the q-th ? is params[q]
Bind(tok, ps, q) ==
  LET i == IF tok = "?" THEN q ELSE CHOOSE i \in 0..MaxIndex : tok = "$" \o ToString(i)
  IN IF i \in 1..Len(ps) THEN ps[i] ELSE Unbound
NextQ(tok, q) == IF tok = "?" THEN q + 1 ELSE q

\* substring test on the short strings of the explored rows
Contains(text, core) ==
  \E pre \in {"", "1"}, post \in {"", "0"} : text = pre \o core \o post

Compare(sqlop, x, y) ==
  IF x.t = "unbound" \/ y.t = "unbound" THEN "E"
  ELSE IF x.t = "null" \/ y.t = "null" THEN "U"
  ELSE IF sqlop = "LIKE"
  THEN IF y.t = "str" /\ \E core \in {"", "1", "10", "ali"} :
                           y.s = "%" \o core \o "%" /\ Contains(JSString(x), core)
       THEN "T" ELSE "F"
  ELSE IF x.t # y.t THEN "E"
  ELSE IF CASE sqlop = "=" -> x = y
            [] sqlop = "!=" -> x # y
            [] sqlop = ">" -> x.n > y.n
            [] sqlop = ">=" -> x.n >= y.n
            [] sqlop = "<" -> x.n < y.n
            [] sqlop = "<=" -> x.n <= y.n
            [] OTHER -> FALSE
  THEN "T" ELSE "F"

RECURSIVE In3(_, _)
\* x IN (vals)
In3(x, vals) ==
  IF vals = <<>> THEN "F" ELSE Or3(Compare("=", x, Head(vals)), In3(x, Tail(vals)))

RECURSIVE EvalList(_, _, _, _, _)
\* the bound values of a parenthesised placeholder list starting at p
EvalList(toks, ps, p, q, acc) ==
  IF p > Len(toks) THEN [vals |-> <<Unbound>>, p |-> p, q |-> q]
  ELSE IF toks[p] = ")" THEN [vals |-> acc, p |-> p + 1, q |-> q]
  ELSE IF toks[p] = "," THEN EvalList(toks, ps, p + 1, q, acc)
  ELSE EvalList(toks, ps, p + 1, NextQ(toks[p], q), Append(acc, Bind(toks[p], ps, q)))

RECURSIVE EvalOr(_, _, _, _, _)
RECURSIVE EvalAnd(_, _, _, _, _)
RECURSIVE EvalAtom(_, _, _, _, _)
RECURSIVE EvalRest(_, _, _, _, _, _)
\* each returns [v, p, q]: the truth value, the position after the
\* expression, and the ordinal of the next ? marker
EvalAtom(toks, ps, row, p, q) ==
  IF p + 2 > Len(toks)
  THEN [v |-> IF p <= Len(toks) /\ toks[p] = "1=1" THEN "T" ELSE "E", p |-> p + 1, q |-> q]
  ELSE IF toks[p] = "("
  THEN LET r == EvalOr(toks, ps, row, p + 1, q) IN [r EXCEPT !.p = r.p + 1]
  ELSE LET x == IF toks[p] \in RowFields THEN row[toks[p]] ELSE Unbound
           k == toks[p + 1]
       IN IF k = "IS"
          THEN IF toks[p + 2] = "NOT"
               THEN [v |-> IF x.t = "unbound" THEN "E" ELSE IF x.t # "null" THEN "T" ELSE "F",
                     p |-> p + 4, q |-> q]
               ELSE [v |-> IF x.t = "unbound" THEN "E" ELSE IF x.t = "null" THEN "T" ELSE "F",
                     p |-> p + 3, q |-> q]
          ELSE IF k = "IN"
          THEN LET l == EvalList(toks, ps, p + 3, q, <<>>)
               IN [v |-> In3(x, l.vals), p |-> l.p, q |-> l.q]
          ELSE IF k = "NOT"
          THEN LET l == EvalList(toks, ps, p + 4, q, <<>>)
               IN [v |-> Not3(In3(x, l.vals)), p |-> l.p, q |-> l.q]
          ELSE [v |-> Compare(k, x, Bind(toks[p + 2], ps, q)), p |-> p + 3,
                q |-> NextQ(toks[p + 2], q)]

\* the operands that follow, each introduced by the keyword kw
EvalRest(toks, ps, row, left, kw, q0) ==
  IF left.p <= Len(toks) /\ toks[left.p] = kw
  THEN LET r == IF kw = "AND" THEN EvalAtom(toks, ps, row, left.p + 1, left.q)
                ELSE EvalAnd(toks, ps, row, left.p + 1, left.q)
       IN EvalRest(toks, ps, row,
                   [v |-> IF kw = "AND" THEN And3(left.v, r.v) ELSE Or3(left.v, r.v),
                    p |-> r.p, q |-> r.q], kw, q0)
  ELSE left

EvalAnd(toks, ps, row, p, q) ==
  EvalRest(toks, ps, row, EvalAtom(toks, ps, row, p, q), "AND", q)

EvalOr(toks, ps, row, p, q) ==
  EvalRest(toks, ps, row, EvalAnd(toks, ps, row, p, q), "OR", q)

\* the truth value of WHERE <toks> with parameters ps on a row
EvalWhere(toks, ps, row) == EvalOr(toks, ps, row, 1, 1).v

RECURSIVE MongoValid(_)
\* the document store accepts the filter: no empty $or/$and array and no
\* unknown operator
MongoValid(f) ==
  \A i \in 1..Len(f) :
    CASE f[i].t = "group" ->
           Len(f[i].subs) > 0 /\ \A j \in 1..Len(f[i].subs) : MongoValid(f[i].subs[j])
      [] f[i].t = "ops" ->
           \A j \in 1..Len(f[i].ops) : f[i].ops[j].op \in SupportedOperators
      [] OTHER -> TRUE

MongoOp(o, x, v) ==
  CASE o = "$eq" -> x = v
    [] o = "$ne" -> x # v
    [] o = "$gt" -> x.t = "num" /\ v.t = "num" /\ x.n > v.n
    [] o = "$gte" -> x.t = "num" /\ v.t = "num" /\ x.n >= v.n
    [] o = "$lt" -> x.t = "num" /\ v.t = "num" /\ x.n < v.n
    [] o = "$lte" -> x.t = "num" /\ v.t = "num" /\ x.n <= v.n
    [] o = "$in" -> \E j \in 1..Len(v.items) : v.items[j] = x
    [] o = "$nin" -> \A j \in 1..Len(v.items) : v.items[j] # x
    [] o = "$regex" -> x.t = "str" /\ Contains(x.s, v.s)
    [] o = "$exists" -> (x.t # "null") = Truthy(v)
    [] OTHER -> FALSE

RECURSIVE MongoEval(_, _)
MongoEval(f, doc) ==
  \A i \in 1..Len(f) :
    LET x == IF f[i].key \in DOMAIN doc THEN doc[f[i].key] ELSE Null
    IN CASE f[i].t = "group" ->
              IF f[i].key = "$or"
              THEN \E j \in 1..Len(f[i].subs) : MongoEval(f[i].subs[j], doc)
              ELSE \A j \in 1..Len(f[i].subs) : MongoEval(f[i].subs[j], doc)
         [] f[i].t = "ops" ->
              \A j \in 1..Len(f[i].ops) : MongoOp(f[i].ops[j].op, x, f[i].ops[j].val)
         [] OTHER -> x = f[i].lit

\* the query with native filter f returns doc
MongoSatisfied(f, doc) == MongoValid(f) /\ MongoEval(f, doc)

RECURSIVE HasEmptyGroup(_)
\* the declared filter contains $or: [] or $and: [] at some depth
HasEmptyGroup(f) ==
  \E i \in 1..Len(f) :
    f[i].t = "group" /\ (f[i].subs = <<>>
                         \/ \E j \in 1..Len(f[i].subs) : HasEmptyGroup(f[i].subs[j]))

\* ------------------------------------------------------------------------
\* C6: empty filters and empty logical groups
\* ------------------------------------------------------------------------

\* C6: an empty filter compiles to 1=1 with no params, and for every filter
\* containing an empty logical group the compiled SQL clause and the compiled
\* native filter are satisfied by every row/document.
C6_EmptyGroupAlwaysTrue ==
  (pc = "done" /\ op = "find") =>
    /\ (filter = <<>> /\ dialect \in SQLDialects) => (where = <<"1=1">> /\ params = <<>>)
    /\ HasEmptyGroup(filter) =>
         IF dialect \in SQLDialects
         THEN \A row \in Rows : EvalWhere(where, params, row) = "T"
         ELSE \A doc \in Rows : MongoSatisfied(mongoFilter, doc)

\* ------------------------------------------------------------------------
\* C7..C10: update compilation and rejection of malformed input
\* ------------------------------------------------------------------------
UpdateOps == {"updateOne", "updateMany"}

\* an UPDATE statement was built by a relational adapter and sent
UpdateSent == pc = "done" /\ op \in UpdateOps /\ dialect \in SQLDialects /\ outcome = "ok"

NonEmptyBucket(u, k) == HasKey(u, k) /\ Len(ObjOf(u, k)) > 0

\* the tokens of the statement between SET and WHERE
SetClause(stmt) ==
  LET a == CHOOSE i \in 1..Len(stmt) : stmt[i] = "SET"
      b == CHOOSE i \in 1..Len(stmt) : stmt[i] = "WHERE" /\ i > a
  IN SubSeq(stmt, a + 1, b - 1)

IdentifierNames == {"age", "name", "city", "tags"}
\* an identifier without the quotes the adapter put around it
Unquote(tok) ==
  IF \E n \in IdentifierNames, q \in {Backtick, "\""} : tok = q \o n \o q
  THEN CHOOSE n \in IdentifierNames : \E q \in {Backtick, "\""} : tok = q \o n \o q
  ELSE tok
UnquoteAll(tokens) == [i \in 1..Len(tokens) |-> Unquote(tokens[i])]

IsIncrement(clause) == \E i \in 1..Len(clause) : clause[i] = "+"
IsAssignment(clause) == ~IsIncrement(clause) /\ clause[Len(clause)] # "NULL"

\* the update {$inc: {age: 1}, $set: {name: "X"}}
ExampleUpdate ==
  <<UOp("$inc", <<KV("age", Num(1))>>), UOp("$set", <<KV("name", Str("X"))>>)>>

\* the parameters of the SET clause within the statement's parameters:
\* toSQLUpdate puts them after the WHERE parameters, the adapters before
SetParams(n) ==
  IF dialect = "postgres" THEN SubSeq(sqlParams, Len(sqlParams) - n + 1, Len(sqlParams))
  ELSE SubSeq(sqlParams, 1, n)

\* C7 as stated: with both increments and assignments, the increment clauses
\* come before the assignment clauses, params in the same order; the example
\* yields age = age + ?, name = ? with params [1, "X"].
C7_IncrementsBeforeAssignments ==
  (UpdateSent /\ NonEmptyBucket(update, "$inc") /\ NonEmptyBucket(update, "$set")) =>
    LET clauses == Split(SetClause(sql), ",")
    IN /\ \A i, j \in 1..Len(clauses) :
            (IsIncrement(clauses[i]) /\ IsAssignment(clauses[j])) => i < j
       /\ (update = ExampleUpdate /\ dialect # "postgres") =>
            /\ Render(UnquoteAll(SetClause(sql))) = "age = age + ?, name = ?"
            /\ SetParams(2) = <<Num(1), Str("X")>>

\* C7 amended: the assignment clauses come first, then the increment clauses,
\* then the removals, params in the same order; the adapters of the
\* repeated-marker dialects use the bare ? and quote the identifiers; the
\* example yields name = ?, age = age + ? with params ["X", 1].
C7_AssignmentsBeforeIncrements ==
  (UpdateSent /\ NonEmptyBucket(update, "$inc") /\ NonEmptyBucket(update, "$set")) =>
    LET sets == ObjOf(update, "$set")
        incs == ObjOf(update, "$inc")
        unsets == IF HasKey(update, "$unset") THEN ObjOf(update, "$unset") ELSE <<>>
        n == Len(sets) + Len(incs)
        base == Len(sqlParams) - n
        mark(i) == IF dialect = "postgres" THEN "$" \o ToString(base + i) ELSE "?"
        expected ==
          [i \in 1..Len(sets) |-> <<sets[i].key, "=", mark(i)>>]
          \o [i \in 1..Len(incs) |->
                <<incs[i].key, "=", incs[i].key, "+", mark(Len(sets) + i)>>]
          \o [i \in 1..Len(unsets) |-> <<unsets[i].key, "=", "NULL">>]
    IN /\ UnquoteAll(SetClause(sql)) = Join(expected, <<",">>)
       /\ SetParams(n) = [i \in 1..Len(sets) |-> sets[i].val]
                         \o [i \in 1..Len(incs) |-> incs[i].val]
       /\ (update = ExampleUpdate /\ dialect # "postgres") =>
            /\ Render(UnquoteAll(SetClause(sql))) = "name = ?, age = age + ?"
            /\ SetParams(2) = <<Str("X"), Num(1)>>
       /\ dialect # "postgres" =>
            \A i \in 1..Len(sets) : Split(SetClause(sql), ",")[i][1] # sets[i].key

C7_Witness ==
  /\ UpdateSent /\ dialect = "mysql" /\ op = "updateMany"
  /\ update = ExampleUpdate
  /\ Render(UnquoteAll(SetClause(sql))) = "name = ?, age = age + ?"

\* C8: an update with an append ($push/$addToSet) or detach ($pull) bucket is
\* rejected with an error by the relational adapters: it never ends as a sent
\* statement or a successful no-op.
C8_AppendDetachRejected ==
  (pc = "done" /\ op \in UpdateOps /\ dialect \in SQLDialects
     /\ \E k \in {"$push", "$pull", "$addToSet"} : NonEmptyBucket(update, k)) =>
    outcome \notin {"ok", "noop"}

\* the number of operations in the five buckets
TotalOperations(parsed) ==
  Len(parsed.sets) + Len(parsed.increments) + Len(parsed.unsets)
    + Len(parsed.pushes) + Len(parsed.pulls)

\* C9: a non-empty update whose keys yield no operation in any bucket is
\* rejected with an error, not treated as a successful no-op.
C9_EmptySpecRejected ==
  (pc = "done" /\ op \in UpdateOps /\ update # <<>>
     /\ TotalOperations(parseUpdateFilter(update)) = 0) =>
    outcome \notin {"ok", "noop"}

\* C10: a filter leaf with an operator outside the supported set makes the
\* compilation fail: no clause and no native filter is returned.
C10_UnknownOperatorFails ==
  (pc = "done" /\ op = "find"
     /\ \E i \in 1..Len(LeavesOf(filter)) :
          LeavesOf(filter)[i].op \notin SupportedOperators) =>
    outcome # "ok"

\* ------------------------------------------------------------------------
\* C11: the native filter of the document store
\* ------------------------------------------------------------------------
RECURSIVE Canon(_)
\* an object read without regard to the order of its keys
Canon(f) ==
  {[key |-> f[i].key, t |-> f[i].t, lit |-> f[i].lit,
    ops |-> {f[i].ops[j] : j \in 1..Len(f[i].ops)},
    subs |-> [k \in 1..Len(f[i].subs) |-> Canon(f[i].subs[k])]] : i \in 1..Len(f)}

RECURSIVE UsesExplicitEq(_)
\* the filter, or a filter nested in one of its groups, has a {$eq: v} operator
UsesExplicitEq(f) ==
  \E i \in 1..Len(f) :
    \/ \E j \in 1..Len(f[i].ops) : f[i].ops[j].op = "$eq"
    \/ \E k \in 1..Len(f[i].subs) : UsesExplicitEq(f[i].subs[k])

\* C11: the native compiler maps an equality leaf to a direct field: value
\* entry, the other operators of a field to one operator-keyed object and a
\* logical group to an array of compiled children; for every filter without
\* an explicit $eq the compiled native filter is structurally equal to the
\* declared filter, and no parameter list is produced.
C11_MongoFilterRoundTrip ==
  (pc = "done" /\ op = "find" /\ dialect = "mongodb" /\ ~UsesExplicitEq(filter)) =>
    /\ outcome = "ok"
    /\ Canon(mongoFilter) = Canon(filter)
    /\ params = <<>>

\* ------------------------------------------------------------------------
\* Schema synchronisation: the declared schema and the backend
\* ------------------------------------------------------------------------
\* number of fields of the schema a model is first declared with
MaxFields == 1
\* number of statements of one sync call that an injected fault makes fail
MaxFaults == 1

Adapters == {"postgres", "mysql", "sqlite", "mongodb"}

\* the adapters with a method named query, the one the sync manager looks up
\* with (this.adapter as any).query; the SQLite adapter has run/all/get only
HasQueryMethod(a) == a \in {"postgres", "mysql"}

Field(name, type, required, unique, index) ==
  [name |-> name, type |-> type, required |-> required, unique |-> unique,
   index |-> index]

\* the field declarations a schema is made of
FieldDecls ==
  {Field("Email", "String", FALSE, TRUE, FALSE),
   Field("age", "Number", TRUE, FALSE, TRUE)}

\* schema.definition: distinct keys in declaration order
Schemas ==
  UNION {{f \in [1..n -> FieldDecls] : \A i, j \in 1..n : i # j => f[i].name # f[j].name}
         : n \in 1..MaxFields}

\* String.prototype.toLowerCase on the names of the model
Lower(name) == IF name = "Email" THEN "email" ELSE name

\* the tables a sync call can find: none, or one left by an earlier version
\* of the application
InitialTables ==
  {NoTable}
  \cup {[exists |-> TRUE, columns |-> c, indexes |-> {}]
          : c \in {{"_id"}, {"_id", "email", "legacy"}}}

TableName == "users"

\* a statement handed to the driver: its kind, the field it is about, the
\* columns of a CREATE TABLE, and its text
Stmt(kind, field, columns, text) ==
  [kind |-> kind, field |-> field, columns |-> columns, sql |-> text, ok |-> TRUE]

\* the identifier quote of an adapter
Q(a) == IF a = "mysql" THEN Backtick ELSE "\""

\* ------------------------------------------------------------------------
\* The backend: what a statement does to the table
\* ------------------------------------------------------------------------
\* the table has a column of that name; PostgreSQL keeps the case of a
\* quoted identifier, MySQL and SQLite compare column names without case
ColumnTaken(a, d, name) ==
  IF a = "postgres" THEN name \in d.columns
  ELSE \E c \in d.columns : Lower(c) = Lower(name)

\* the statement is refused by the backend in state d
Refused(a, d, stmt) ==
  CASE a = "mongodb" -> FALSE
    [] stmt.kind = "ADD COLUMN" -> ~d.exists \/ ColumnTaken(a, d, stmt.field)
    [] stmt.kind = "CREATE INDEX" ->
         \/ ~d.exists
         \/ ~ColumnTaken(a, d, stmt.field)
         \/ (a = "mysql" /\ stmt.field \in d.indexes)
    [] OTHER -> FALSE

\* the backend after the statement succeeded
Applied(a, d, stmt) ==
  CASE stmt.kind = "CREATE TABLE" ->
         IF d.exists THEN d
         ELSE [exists |-> TRUE, columns |-> stmt.columns, indexes |-> {}]
    [] stmt.kind = "DROP TABLE" -> NoTable
    [] stmt.kind = "ADD COLUMN" -> [d EXCEPT !.columns = @ \cup {stmt.field}]
    [] stmt.kind = "CREATE INDEX" ->
         [d EXCEPT !.exists = TRUE, !.indexes = @ \cup {stmt.field}]
    [] OTHER -> d

\* what an injected fault names: the statement kind and its field
FaultKey(stmt) == IF stmt.field = "" THEN stmt.kind ELSE stmt.kind \o " " \o stmt.field

FaultKeys ==
  {"SELECT table", "SELECT columns", "ADD COLUMN Email", "ADD COLUMN age",
   "DROP TABLE", "CREATE TABLE"}

FaultSets == {fs \in SUBSET FaultKeys : Cardinality(fs) <= MaxFaults}

\* the driver call: run = [db, log, threw]; threw tells whether this
\* statement rejected
Exec(a, run, stmt, faults) ==
  LET bad == FaultKey(stmt) \in faults \/ Refused(a, run.db, stmt)
  IN [db |-> IF bad THEN run.db ELSE Applied(a, run.db, stmt),
      log |-> Append(run.log, [stmt EXCEPT !.ok = ~bad]),
      threw |-> bad]

Caught(run) == [run EXCEPT !.threw = FALSE]

\* ------------------------------------------------------------------------
\* The adapters: createCollection and dropCollection
\* ------------------------------------------------------------------------
\* schemaToColumns: the _id column, then one column per declared field
\* (the column types and constraints are left out of the statement text)
schemaToColumns(fields) == {"_id"} \cup {fields[i].name : i \in 1..Len(fields)}

\* the CREATE INDEX statement of createCollection for one field
adapterIndexStmt(a, f) ==
  LET q == Q(a)
      idx == q \o "idx_" \o TableName \o "_" \o f.name \o q
      on == " ON " \o q \o TableName \o q \o " (" \o q \o f.name \o q \o ")"
      head == IF f.unique THEN "CREATE UNIQUE INDEX " ELSE "CREATE INDEX "
  IN CASE a = "mongodb" -> Stmt("CREATE INDEX", f.name, {}, "createIndex")
       [] a = "mysql" -> Stmt("CREATE INDEX", f.name, {}, head \o idx \o on)
       [] OTHER -> Stmt("CREATE INDEX", f.name, {}, head \o "IF NOT EXISTS " \o idx \o on)

RECURSIVE createIndexes(_, _, _, _)
\* the index loop of createCollection; MySQL and SQLite wrap each statement
\* in try/catch, PostgreSQL and MongoDB let the rejection out
createIndexes(a, run, fields, faults) ==
  IF fields = <<>> THEN run
  ELSE LET f == Head(fields)
       IN IF ~(f.unique \/ f.index) THEN createIndexes(a, run, Tail(fields), faults)
          ELSE LET x == Exec(a, run, adapterIndexStmt(a, f), faults)
               IN IF x.threw /\ a \in {"postgres", "mongodb"} THEN x
                  ELSE createIndexes(a, Caught(x), Tail(fields), faults)

\* the first statement of createCollection
createTableStmt(a, fields) ==
  IF a = "mongodb" THEN Stmt("CREATE TABLE", "", {}, "createCollection")
  ELSE Stmt("CREATE TABLE", "", schemaToColumns(fields),
            "CREATE TABLE IF NOT EXISTS " \o Q(a) \o TableName \o Q(a))

createCollection(a, run, fields, faults) ==
  LET x == Exec(a, run, createTableStmt(a, fields), faults)
  IN IF x.threw THEN x ELSE createIndexes(a, x, fields, faults)

dropCollection(a, run, faults) ==
  LET q == Q(a)
      stmt ==
        CASE a = "mongodb" -> Stmt("DROP TABLE", "", {}, "dropCollection")
          [] a = "postgres" ->
               Stmt("DROP TABLE", "", {}, "DROP TABLE IF EXISTS " \o q \o TableName \o q \o " CASCADE")
          [] OTHER -> Stmt("DROP TABLE", "", {}, "DROP TABLE IF EXISTS " \o q \o TableName \o q)
      x == Exec(a, run, stmt, faults)
  IN IF a = "mongodb" THEN Caught(x) ELSE x

\* ------------------------------------------------------------------------
\* SchemaSyncManager
\* ------------------------------------------------------------------------
getTableExistsQuery(a) ==
  CASE a = "postgres" ->
         "SELECT table_name FROM information_schema.tables WHERE table_schema = 'public' AND table_name = $1"
    [] a = "mysql" ->
         "SELECT table_name FROM information_schema.tables WHERE table_schema = DATABASE() AND table_name = ?"
    [] a = "sqlite" -> "SELECT name FROM sqlite_master WHERE type='table' AND name=?"
    [] OTHER -> ""

\* tableExists reading a rejected query as "the table is there"
tableExists_RejectionMeansPresent(a, run, faults) ==
  IF a = "mongodb" THEN [run |-> run, value |-> TRUE]
  ELSE IF getTableExistsQuery(a) = "" \/ ~HasQueryMethod(a)
  THEN [run |-> run, value |-> FALSE]
  ELSE LET x == Exec(a, run, Stmt("SELECT table", "", {}, getTableExistsQuery(a)), faults)
       IN [run |-> Caught(x), value |-> x.threw \/ run.db.exists]

\* tableExists: [run, value]; every rejection is caught and read as false
tableExists(a, run, faults) ==
  IF a = "mongodb" THEN [run |-> run, value |-> TRUE]
  ELSE IF getTableExistsQuery(a) = "" \/ ~HasQueryMethod(a)
  THEN [run |-> run, value |-> FALSE]
  ELSE LET x == Exec(a, run, Stmt("SELECT table", "", {}, getTableExistsQuery(a)), faults)
       IN [run |-> Caught(x), value |-> ~x.threw /\ run.db.exists]

\* getExistingColumns: [run, names]; no query, no query method or a rejected
\* query give []
getExistingColumns(a, run, faults) ==
  IF a = "mongodb" \/ ~HasQueryMethod(a) THEN [run |-> run, names |-> {}]
  ELSE LET text == IF a = "postgres"
                   THEN "SELECT column_name as name, data_type as type, is_nullable as nullable FROM information_schema.columns WHERE table_name = $1"
                   ELSE "SELECT COLUMN_NAME as name, DATA_TYPE as type, IS_NULLABLE as nullable FROM information_schema.columns WHERE table_schema = DATABASE() AND table_name = ?"
           x == Exec(a, run, Stmt("SELECT columns", "", {}, text), faults)
       IN [run |-> Caught(x), names |-> IF x.threw THEN {} ELSE run.db.columns]

\* the type names of a schema definition: String, Number, Boolean, Date,
\* Buffer, Array and Object are the constructors (type.name), ObjectId and
\* Mixed are the strings of Schema.Types
FieldTypes ==
  {"String", "Number", "Boolean", "Date", "Buffer", "Array", "Object", "ObjectId", "Mixed"}

typeMap ==
  [postgres |-> [String |-> "VARCHAR(255)", Number |-> "DOUBLE PRECISION",
                 Boolean |-> "BOOLEAN", Date |-> "TIMESTAMP", Array |-> "JSONB",
                 Object |-> "JSONB", ObjectId |-> "VARCHAR(36)", Mixed |-> "JSONB"],
   mysql |-> [String |-> "VARCHAR(255)", Number |-> "DOUBLE",
              Boolean |-> "TINYINT(1)", Date |-> "DATETIME", Array |-> "JSON",
              Object |-> "JSON", ObjectId |-> "VARCHAR(36)", Mixed |-> "JSON"],
   sqlite |-> [String |-> "TEXT", Number |-> "REAL", Boolean |-> "INTEGER",
               Date |-> "TEXT", Array |-> "TEXT", Object |-> "TEXT",
               ObjectId |-> "TEXT", Mixed |-> "TEXT"]]

\* typeMap[adapterName]?.[typeName] || 'TEXT'
getColumnType(a, type) ==
  IF a \in DOMAIN typeMap /\ type \in DOMAIN typeMap[a] THEN typeMap[a][type] ELSE "TEXT"

\* getAddColumnSQL: "" stands for null
getAddColumnSQL(a, f) ==
  LET q == Q(a)
      head == "ALTER TABLE " \o q \o TableName \o q \o " ADD COLUMN "
                \o q \o f.name \o q \o " " \o getColumnType(a, f.type)
  IN CASE a = "postgres" -> head \o (IF f.required THEN " NOT NULL DEFAULT ''" ELSE "")
       [] a = "mysql" -> head \o (IF f.required THEN " NOT NULL" ELSE "")
       [] a = "sqlite" -> head
       [] OTHER -> ""

\* getCreateIndexSQL: "" stands for null
getCreateIndexSQL(a, fieldName, unique) ==
  LET q == Q(a)
      idx == q \o "idx_" \o TableName \o "_" \o fieldName \o q
      on == " ON " \o q \o TableName \o q \o " (" \o q \o fieldName \o q \o ")"
      head == "CREATE " \o (IF unique THEN "UNIQUE " ELSE "") \o "INDEX "
  IN CASE a = "mysql" -> head \o idx \o on
       [] a \in {"postgres", "sqlite"} -> head \o "IF NOT EXISTS " \o idx \o on
       [] OTHER -> ""

RECURSIVE syncIndexes(_, _, _, _)
\* syncIndexes: every rejection is caught; without a query method the
\* optional call query?.() does nothing
syncIndexes(a, run, fields, faults) ==
  IF fields = <<>> THEN run
  ELSE LET f == Head(fields)
           text == getCreateIndexSQL(a, f.name, f.unique)
       IN IF (f.unique \/ f.index) /\ text # "" /\ HasQueryMethod(a)
          THEN syncIndexes(a, Caught(Exec(a, run, Stmt("CREATE INDEX", f.name, {}, text), faults)),
                           Tail(fields), faults)
          ELSE syncIndexes(a, run, Tail(fields), faults)

RECURSIVE addColumns(_, _, _, _, _, _)
\* the field loop of alterTable: [run, changes]; run.threw tells that a
\* statement rejected and ended the loop
addColumns(a, run, fields, existingColumnNames, faults, changes) ==
  IF fields = <<>> THEN [run |-> run, changes |-> changes]
  ELSE LET f == Head(fields)
       IN IF Lower(f.name) \notin existingColumnNames
             /\ getAddColumnSQL(a, f) # "" /\ HasQueryMethod(a)
          THEN LET x == Exec(a, run, Stmt("ADD COLUMN", f.name, {}, getAddColumnSQL(a, f)), faults)
               IN IF x.threw THEN [run |-> x, changes |-> changes]
                  ELSE addColumns(a, x, Tail(fields), existingColumnNames, faults,
                                  Append(changes, "Added column '" \o f.name \o "'"))
          ELSE addColumns(a, run, Tail(fields), existingColumnNames, faults, changes)

\* alterTable with the index synchronisation ahead of the column additions
alterTable_IndexesFirst(a, run, fields, faults) ==
  IF a = "mongodb" THEN [run |-> run, changes |-> <<>>]
  ELSE LET g == getExistingColumns(a, run, faults)
           existingColumnNames == {Lower(c) : c \in g.names}
           indexed == syncIndexes(a, g.run, fields, faults)
           added == addColumns(a, indexed, fields, existingColumnNames, faults, <<>>)
       IN [run |-> Caught(added.run), changes |-> added.changes]

\* alterTable: [run, changes]; the try block ends at the first rejected
\* ADD COLUMN, the catch logs it and the changes made so far are returned
alterTable(a, run, fields, faults) ==
  IF a = "mongodb" THEN [run |-> run, changes |-> <<>>]
  ELSE LET g == getExistingColumns(a, run, faults)
           existingColumnNames == {Lower(c) : c \in g.names}
           added == addColumns(a, g.run, fields, existingColumnNames, faults, <<>>)
       IN IF added.run.threw
          THEN [run |-> Caught(added.run), changes |-> added.changes]
          ELSE [run |-> syncIndexes(a, added.run, fields, faults),
                changes |-> added.changes]

Thrown(run) == [db |-> run.db, log |-> run.log, result |-> NoResult, threw |-> TRUE]
Returned(run, result) == [db |-> run.db, log |-> run.log, result |-> result, threw |-> FALSE]

\* sync with the drop taken in alter mode as well
sync_DropsInAlterMode(options, a, fields, d, faults) ==
  LET start == [db |-> d, log |-> <<>>, threw |-> FALSE]
  IN IF options.force \/ options.alter
     THEN LET dropped == dropCollection(a, start, faults)
              created == createCollection(a, dropped, fields, faults)
          IN IF dropped.threw THEN Thrown(dropped)
             ELSE IF created.threw THEN Thrown(created)
             ELSE Returned(created,
                    [created |-> TRUE, altered |-> FALSE,
                     changes |-> <<"Table '" \o TableName \o "' dropped and recreated">>])
     ELSE LET te == tableExists(a, start, faults)
          IN IF ~te.value
             THEN LET created == createCollection(a, te.run, fields, faults)
                  IN IF created.threw THEN Thrown(created)
                     ELSE Returned(created,
                            [created |-> TRUE, altered |-> FALSE,
                             changes |-> <<"Table '" \o TableName \o "' created">>])
             ELSE Returned(te.run, NoResult)

\* sync(options) against the backend d: [db, log, result, threw]
sync(options, a, fields, d, faults) ==
  LET start == [db |-> d, log |-> <<>>, threw |-> FALSE]
  IN IF options.force
     THEN LET dropped == dropCollection(a, start, faults)
              created == createCollection(a, dropped, fields, faults)
          IN IF dropped.threw THEN Thrown(dropped)
             ELSE IF created.threw THEN Thrown(created)
             ELSE Returned(created,
                    [created |-> TRUE, altered |-> FALSE,
                     changes |-> <<"Table '" \o TableName \o "' dropped and recreated">>])
     ELSE LET te == tableExists(a, start, faults)
          IN IF ~te.value
             THEN LET created == createCollection(a, te.run, fields, faults)
                  IN IF created.threw THEN Thrown(created)
                     ELSE Returned(created,
                            [created |-> TRUE, altered |-> FALSE,
                             changes |-> <<"Table '" \o TableName \o "' created">>])
             ELSE IF options.alter
             THEN LET al == alterTable(a, te.run, fields, faults)
                  IN Returned(al.run,
                       [created |-> FALSE, altered |-> Len(al.changes) > 0,
                        changes |-> al.changes])
             ELSE Returned(te.run, NoResult)

\* ------------------------------------------------------------------------
\* Synchronisation as a state machine
\* ------------------------------------------------------------------------
\* number of sync calls of one behaviour
MaxCalls == 2

Options(force, alter) == [force |-> force, alter |-> alter]
\* {}, { alter: true }, { force: true }
SyncOptions == {Options(FALSE, FALSE), Options(FALSE, TRUE), Options(TRUE, FALSE)}

\* the options of connect(): sync, and syncOptions when given
ConnectOptions ==
  {[sync |-> FALSE, given |-> FALSE, syncOptions |-> Options(FALSE, FALSE)],
   [sync |-> TRUE, given |-> FALSE, syncOptions |-> Options(FALSE, FALSE)],
   [sync |-> TRUE, given |-> TRUE, syncOptions |-> Options(TRUE, FALSE)]}

\* ConnectionManagerImpl.connect: what it keeps of the sync settings
connect(o) ==
  [given |-> o.given,
   syncEnabled |-> o.sync,
   syncOptions |-> IF o.given THEN o.syncOptions ELSE Options(FALSE, TRUE)]

SyncInit ==
  /\ pc = "sync" /\ op = "sync"
  /\ filter = <<>> /\ update = <<>> /\ matched = FALSE /\ conditions = <<>>
  /\ dialect = "" /\ where = <<>> /\ params = <<>> /\ mongoFilter = <<>>
  /\ sql = <<>> /\ sqlParams = <<>> /\ mongoUpdate = <<>> /\ outcome = ""
  /\ adapterName \in Adapters
  /\ connection \in {connect(o) : o \in ConnectOptions}
  /\ schema \in Schemas
  /\ db \in InitialTables
  /\ synced = FALSE
  /\ prevSync = NoCall
  /\ lastSync = NoCall
  /\ LaterIdle

\* a sync call made through via with the given options has run as r
Called(via, options, r) ==
  /\ lastSync' = [n |-> lastSync.n + 1, via |-> via, options |-> options,
                  schema |-> schema, before |-> db, after |-> r.db, log |-> r.log,
                  result |-> r.result, threw |-> r.threw]
  /\ prevSync' = lastSync

\* Model.sync(options): the model is marked synced when the call returns
ModelSync ==
  /\ pc = "sync" /\ lastSync.n < MaxCalls
  /\ \E options \in SyncOptions, faults \in FaultSets :
       \E r \in {sync(options, adapterName, schema, db, faults)} :
          /\ Called("sync", options, r)
          /\ db' = r.db
          /\ synced' = (synced \/ ~r.threw)
  /\ UNCHANGED <<vars, laterVars, adapterName, connection, schema>>

\* syncAll() without argument: Model.sync with the default { alter: true }
SyncAll ==
  /\ pc = "sync" /\ lastSync.n < MaxCalls
  /\ \E faults \in FaultSets :
       \E r \in {sync(Options(FALSE, TRUE), adapterName, schema, db, faults)} :
          /\ Called("syncAll", Options(FALSE, TRUE), r)
          /\ db' = r.db
          /\ synced' = (synced \/ ~r.threw)
  /\ UNCHANGED <<vars, laterVars, adapterName, connection, schema>>

\* Model.create of one document, up to the insert: ensureSynced runs the
\* sync once per model when the connection enables it, then the adapter's
\* createCollection makes sure the collection exists
CreateSingleDoc ==
  /\ pc = "sync"
  /\ IF ~synced /\ connection.syncEnabled
     THEN /\ lastSync.n < MaxCalls
          /\ \E faults \in FaultSets :
               \E r \in {sync(connection.syncOptions, adapterName, schema, db, faults)} :
               LET c == createCollection(adapterName,
                                         [db |-> r.db, log |-> <<>>, threw |-> FALSE],
                                         schema, {})
               IN /\ Called("auto", connection.syncOptions, r)
                  /\ synced' = ~r.threw
                  /\ db' = IF r.threw THEN r.db ELSE c.db
     ELSE /\ db' = createCollection(adapterName,
                                    [db |-> db, log |-> <<>>, threw |-> FALSE],
                                    schema, {}).db
          /\ UNCHANGED <<synced, prevSync, lastSync>>
  /\ UNCHANGED <<vars, laterVars, adapterName, connection, schema>>

\* schema.add({f: ...}) of a field not declared yet: Object.assign appends it
SchemaAdd ==
  /\ pc = "sync"
  /\ \E f \in FieldDecls :
       /\ \A i \in 1..Len(schema) : schema[i].name # f.name
       /\ schema' = Append(schema, f)
  /\ UNCHANGED <<vars, laterVars, adapterName, connection, db, synced, prevSync, lastSync>>

SyncNext ==
  \/ ModelSync
  \/ SyncAll
  \/ CreateSingleDoc
  \/ SchemaAdd

SyncSpec == SyncInit /\ [][SyncNext]_<<vars, syncVars, laterVars>>

\* ------------------------------------------------------------------------
\* Reading a sync call
\* ------------------------------------------------------------------------
Relational == {"postgres", "mysql", "sqlite"}

\* a sync call has been made and is recorded in lastSync
Synced == pc = "sync" /\ lastSync.n >= 1

DDLKinds == {"CREATE TABLE", "DROP TABLE", "ADD COLUMN", "CREATE INDEX"}

\* the positions of the statements of a kind in a log
At(log, kind) == {i \in 1..Len(log) : log[i].kind = kind}
\* the data-definition statements of a log, in order
RECURSIVE DDL(_)
DDL(log) ==
  IF log = <<>> THEN <<>>
  ELSE (IF Head(log).kind \in DDLKinds THEN <<Head(log)>> ELSE <<>>) \o DDL(Tail(log))
Kinds(log) == [i \in 1..Len(log) |-> log[i].kind]

Rejected(log, kind) == \E i \in At(log, kind) : ~log[i].ok
AllSucceeded(log) == \A i \in 1..Len(log) : log[i].ok

CreatedResult ==
  [created |-> TRUE, altered |-> FALSE, changes |-> <<"Table 'users' created">>]

Flagged(fields) == {fields[i].name : i \in {j \in 1..Len(fields) : fields[j].unique \/ fields[j].index}}

\* ------------------------------------------------------------------------
\* C12..C20: schema synchronisation
\* ------------------------------------------------------------------------

\* C12: every sync call on a relational backend that returns and whose
\* existence query is not rejected follows exactly one path: force -> drop then create, created =
\* true; otherwise table missing -> create with the result {created: true,
\* altered: false, changes: ["Table 'users' created"]}; otherwise table
\* exists with alter -> column additions then index statements; otherwise
\* table exists with no mode -> no DDL statement and the empty result.
C12_ExactlyOnePath ==
  (/\ Synced /\ adapterName \in Relational /\ ~lastSync.threw
   /\ ~Rejected(lastSync.log, "SELECT table")) =>
    LET c == lastSync
        ddl == Kinds(DDL(c.log))
    IN CASE c.options.force ->
              /\ Len(ddl) >= 2 /\ ddl[1] = "DROP TABLE" /\ ddl[2] = "CREATE TABLE"
              /\ c.result.created
         [] ~c.options.force /\ ~c.before.exists ->
              /\ Len(ddl) >= 1 /\ ddl[1] = "CREATE TABLE"
              /\ At(c.log, "ADD COLUMN") = {} /\ At(c.log, "DROP TABLE") = {}
              /\ c.result = CreatedResult
         [] ~c.options.force /\ c.before.exists /\ c.options.alter ->
              /\ \A i \in 1..Len(ddl) : ddl[i] \in {"ADD COLUMN", "CREATE INDEX"}
              /\ ~c.result.created
         [] OTHER ->
              /\ ddl = <<>>
              /\ c.result = NoResult

\* C13: a table is dropped only by a call whose options.force is true:
\* a call that issues DROP TABLE has force = true, the defaults of syncAll
\* ({alter: true}) and of the automatic sync without given options never
\* force, and a call without force keeps the existing table and every one
\* of its columns; a call with force that returns has issued the drop and
\* then the create whether or not the table existed, and leaves the table
\* with the declared columns; no statement other than the create, the drop
\* of the table, the column addition and the index creation is ever issued.
C13_DropOnlyWithForce ==
  Synced =>
    LET c == lastSync
        ddl == Kinds(DDL(c.log))
    IN /\ (At(c.log, "DROP TABLE") # {}) => c.options.force
       /\ c.via = "syncAll" => c.options = Options(FALSE, TRUE)
       /\ (c.via = "auto" /\ ~connection.given) => c.options = Options(FALSE, TRUE)
       /\ (~c.options.force /\ c.before.exists) =>
            c.after.exists /\ c.before.columns \subseteq c.after.columns
       /\ (c.options.force /\ ~c.threw) =>
            /\ Len(ddl) >= 2 /\ ddl[1] = "DROP TABLE" /\ ddl[2] = "CREATE TABLE"
            /\ c.after.exists
            /\ adapterName \in Relational => c.after.columns = schemaToColumns(c.schema)
       /\ \A i \in 1..Len(c.log) :
            c.log[i].kind \in DDLKinds \cup {"SELECT table", "SELECT columns"}

\* a forced call on an existing table with a column the schema does not
\* declare, after an unforced call (syncAll) that kept the table
C13_Witness ==
  /\ Synced /\ prevSync.n >= 1
  /\ prevSync.via = "syncAll" /\ prevSync.before.exists
  /\ prevSync.after.columns = prevSync.before.columns
  /\ lastSync.options.force /\ lastSync.before.exists
  /\ "legacy" \in lastSync.before.columns
  /\ "legacy" \notin lastSync.after.columns
  /\ lastSync.log[1].kind = "DROP TABLE"

\* the table exists and has a column for every field, names compared
\* without case as the column difference compares them
Declares(d, fields) ==
  /\ d.exists
  /\ \A i \in 1..Len(fields) : \E c \in d.columns : Lower(c) = Lower(fields[i].name)

\* no query and no column addition of the call was rejected
Undisturbed(log) ==
  /\ ~Rejected(log, "SELECT table")
  /\ ~Rejected(log, "SELECT columns")
  /\ ~Rejected(log, "ADD COLUMN")

Front(fields) == SubSeq(fields, 1, Len(fields) - 1)
Last(fields) == fields[Len(fields)]

\* C14: on a relational backend, with no statement rejected, sync({alter:
\* true}) for a schema whose last field f is the only one the existing table
\* has no column for returns {created: false, altered: true, changes:
\* ["Added column 'f'"]} and adds that column; a call that immediately
\* follows an identical, altering and likewise unrejected call returns
\* {created: false, altered: false, changes: []} and adds no column.
C14_AlterAddsOnce ==
  (/\ Synced /\ adapterName \in Relational
   /\ lastSync.options = Options(FALSE, TRUE)
   /\ Undisturbed(lastSync.log)) =>
    LET c == lastSync
    IN /\ (/\ Len(c.schema) >= 1
           /\ Declares(c.before, Front(c.schema))
           /\ ~Declares(c.before, <<Last(c.schema)>>)) =>
            /\ c.result = [created |-> FALSE, altered |-> TRUE,
                           changes |-> <<"Added column '" \o Last(c.schema).name \o "'">>]
            /\ c.after.columns = c.before.columns \cup {Last(c.schema).name}
       /\ (/\ prevSync.n >= 1 /\ prevSync.options = c.options
           /\ prevSync.schema = c.schema /\ prevSync.result.altered
           /\ Undisturbed(prevSync.log)
           /\ c.before = prevSync.after) =>
            /\ c.result = NoResult
            /\ At(c.log, "ADD COLUMN") = {}
            /\ c.after.columns = c.before.columns

\* C15: on every relational adapter, after sync({}) has created a missing
\* table, an immediately following sync({}) with the same schema whose
\* queries are not rejected finds the table, issues no DDL statement and
\* returns {created: false, altered: false, changes: []}.
C15_SecondSyncFindsTable ==
  (/\ Synced /\ adapterName \in Relational
   /\ prevSync.n >= 1 /\ prevSync.options = Options(FALSE, FALSE)
   /\ ~prevSync.before.exists /\ ~prevSync.threw /\ prevSync.result.created
   /\ lastSync.options = Options(FALSE, FALSE)
   /\ lastSync.schema = prevSync.schema
   /\ lastSync.before = prevSync.after
   /\ Undisturbed(lastSync.log)) =>
    /\ lastSync.before.exists
    /\ DDL(lastSync.log) = <<>>
    /\ lastSync.result = NoResult

\* the declared fields with no column of the same lower-cased name
Missing(d, fields) ==
  {fields[i].name : i \in {j \in 1..Len(fields) :
     Lower(fields[j].name) \notin {Lower(c) : c \in d.columns}}}

\* the fields an ADD COLUMN statement of the log is about
AddedBy(log) == {log[i].field : i \in At(log, "ADD COLUMN")}

\* C16: on a relational backend, a sync call in alter mode on an existing
\* table, with no query and no column addition rejected, emits one ADD
\* COLUMN for exactly the declared fields whose lower-cased name matches no
\* lower-cased existing column name; the existing columns, declared or not,
\* are all kept, and the call emits no statement that drops, renames or
\* retypes anything.
C16_AddsExactlyMissingColumns ==
  (/\ Synced /\ adapterName \in Relational
   /\ lastSync.options = Options(FALSE, TRUE)
   /\ lastSync.before.exists
   /\ Undisturbed(lastSync.log)) =>
    LET c == lastSync
    IN /\ AddedBy(c.log) = Missing(c.before, c.schema)
       /\ Cardinality(At(c.log, "ADD COLUMN")) = Cardinality(AddedBy(c.log))
       /\ c.before.columns \subseteq c.after.columns
       /\ c.after.columns = c.before.columns \cup Missing(c.before, c.schema)
       /\ \A i \in 1..Len(c.log) :
            c.log[i].kind \in {"SELECT table", "SELECT columns", "CREATE TABLE",
                                "ADD COLUMN", "CREATE INDEX"}

\* the changes entries of the column additions of a log that succeeded
RECURSIVE AddedChanges(_)
AddedChanges(log) ==
  IF log = <<>> THEN <<>>
  ELSE (IF Head(log).kind = "ADD COLUMN" /\ Head(log).ok
        THEN <<"Added column '" \o Head(log).field \o "'">> ELSE <<>>)
       \o AddedChanges(Tail(log))

\* C17: in alter mode on an existing table (adapters with a query method,
\* queries not rejected), when an ADD COLUMN statement is rejected the call
\* does not throw, an ADD COLUMN is still attempted for every missing
\* declared field, a CREATE INDEX is attempted for every field flagged
\* unique or index, and changes lists exactly the additions that succeeded.
C17_BestEffortColumnByColumn ==
  (/\ Synced /\ HasQueryMethod(adapterName)
   /\ lastSync.options = Options(FALSE, TRUE)
   /\ lastSync.before.exists
   /\ ~Rejected(lastSync.log, "SELECT table")
   /\ ~Rejected(lastSync.log, "SELECT columns")
   /\ Rejected(lastSync.log, "ADD COLUMN")) =>
    LET c == lastSync
    IN /\ ~c.threw
       /\ AddedBy(c.log) = Missing(c.before, c.schema)
       /\ Flagged(c.schema) \subseteq {c.log[i].field : i \in At(c.log, "CREATE INDEX")}
       /\ c.result.changes = AddedChanges(c.log)

\* the place of a field in the declaration
Position(fields, name) == CHOOSE i \in 1..Len(fields) : fields[i].name = name

\* C18: within one sync call the ADD COLUMN statements are issued in the
\* declaration order of the schema's fields, and every CREATE INDEX
\* statement is issued after the last ADD COLUMN statement.
C18_ColumnsInOrderThenIndexes ==
  Synced =>
    LET c == lastSync
    IN \A i \in At(c.log, "ADD COLUMN") :
         /\ \A j \in At(c.log, "ADD COLUMN") :
              i < j => Position(c.schema, c.log[i].field) < Position(c.schema, c.log[j].field)
         /\ \A j \in At(c.log, "CREATE INDEX") : i < j

\* an alter-mode call that added two columns, the later-sorting name
\* declared first, and then created the indexes of both
C18_Witness ==
  /\ Synced /\ lastSync.options = Options(FALSE, TRUE)
  /\ Len(lastSync.schema) = 2 /\ lastSync.schema[1].name = "age"
  /\ Cardinality(At(lastSync.log, "ADD COLUMN")) = 2
  /\ Cardinality(At(lastSync.log, "CREATE INDEX")) = 2
  /\ AllSucceeded(lastSync.log)
  /\ lastSync.result.changes = <<"Added column 'age'", "Added column 'Email'">>

\* C19: after a sync call that returned and none of whose statements was
\* rejected, on a backend that can index every flagged field (a document
\* store, or a table holding a column for each of them), every declared
\* field flagged unique or index has an index.
C19_FlaggedFieldsIndexed ==
  (/\ Synced /\ ~lastSync.threw /\ AllSucceeded(lastSync.log)
   /\ lastSync.after.exists \/ adapterName = "mongodb"
   /\ \/ adapterName = "mongodb"
      \/ \A f \in Flagged(lastSync.schema) : ColumnTaken(adapterName, lastSync.after, f)) =>
    Flagged(lastSync.schema) \subseteq lastSync.after.indexes

C21_ForceFailsLoudlyAndLosesNothing ==
  (Synced /\ lastSync.options.force) =>
    LET c == lastSync
    IN /\ (Rejected(c.log, "DROP TABLE") \/ Rejected(c.log, "CREATE TABLE")) => c.threw
       /\ (c.threw /\ c.before.exists) => c.after = c.before

\* ------------------------------------------------------------------------
\* Overlapping sync calls: every awaited statement is one step
\* ------------------------------------------------------------------------
\* number of sync calls that overlap
MaxCallers == 2
Callers == 1..MaxCallers

\* a caller about to call sync(options)
Caller(options) ==
  [pc |-> "start", options |-> options, existing |-> {}, i |-> 1, log |-> <<>>,
   changes |-> <<>>, created |-> FALSE]

\* the options of the racing calls: sync() and sync({alter: true})
RaceOptions == {Options(FALSE, FALSE), Options(FALSE, TRUE)}

RaceInit ==
  /\ pc = "race" /\ op = "race"
  /\ QueryIdle
  /\ adapterName \in Adapters
  /\ connection = NotConnected
  /\ schema \in Schemas
  /\ db \in InitialTables
  /\ synced = FALSE /\ prevSync = NoCall /\ lastSync = NoCall
  /\ race \in [Callers -> {Caller(o) : o \in RaceOptions}]
  /\ OutsideRaceIdle

\* the statements the caller has awaited so far, against the table as it is now
Run(c) == [db |-> db, log |-> race[c].log, threw |-> FALSE]

RaceFrame ==
  UNCHANGED <<vars, adapterName, connection, schema, synced, prevSync, lastSync, OutsideRace>>

\* sync: await this.tableExists(), and the branch it selects
RaceTableExists(c) ==
  /\ pc = "race" /\ race[c].pc = "start"
  /\ LET te == tableExists(adapterName, Run(c), {})
         to == IF ~te.value THEN "create"
               ELSE IF ~race[c].options.alter \/ adapterName = "mongodb" THEN "returned"
               ELSE "columns"
     IN race' = [race EXCEPT ![c].pc = to, ![c].log = te.run.log]
  /\ UNCHANGED db
  /\ RaceFrame

\* alterTable: await this.getExistingColumns()
RaceGetExistingColumns(c) ==
  /\ pc = "race" /\ race[c].pc = "columns"
  /\ LET g == getExistingColumns(adapterName, Run(c), {})
     IN race' = [race EXCEPT ![c].pc = "add", ![c].i = 1, ![c].log = g.run.log,
                             ![c].existing = {Lower(n) : n \in g.names}]
  /\ UNCHANGED db
  /\ RaceFrame

\* alterTable: one iteration of the field loop; a rejected ADD COLUMN is
\* caught after the loop and the changes made so far are returned
RaceAddColumn(c) ==
  /\ pc = "race" /\ race[c].pc = "add"
  /\ IF race[c].i > Len(schema)
     THEN /\ race' = [race EXCEPT ![c].pc = "index", ![c].i = 1]
          /\ UNCHANGED db
     ELSE LET f == schema[race[c].i]
              text == getAddColumnSQL(adapterName, f)
          IN IF Lower(f.name) \notin race[c].existing /\ text # "" /\ HasQueryMethod(adapterName)
             THEN LET x == Exec(adapterName, Run(c), Stmt("ADD COLUMN", f.name, {}, text), {})
                  IN /\ db' = x.db
                     /\ race' = IF x.threw
                                THEN [race EXCEPT ![c].pc = "returned", ![c].log = x.log]
                                ELSE [race EXCEPT ![c].i = @ + 1, ![c].log = x.log,
                                        ![c].changes = Append(@, "Added column '" \o f.name \o "'")]
             ELSE /\ race' = [race EXCEPT ![c].i = @ + 1]
                  /\ UNCHANGED db
  /\ RaceFrame

\* syncIndexes: one iteration; every rejection is caught
RaceSyncIndexes(c) ==
  /\ pc = "race" /\ race[c].pc = "index"
  /\ IF race[c].i > Len(schema)
     THEN /\ race' = [race EXCEPT ![c].pc = "returned"]
          /\ UNCHANGED db
     ELSE LET f == schema[race[c].i]
              text == getCreateIndexSQL(adapterName, f.name, f.unique)
          IN IF (f.unique \/ f.index) /\ text # "" /\ HasQueryMethod(adapterName)
             THEN LET x == Exec(adapterName, Run(c), Stmt("CREATE INDEX", f.name, {}, text), {})
                  IN /\ db' = x.db
                     /\ race' = [race EXCEPT ![c].i = @ + 1, ![c].log = x.log]
             ELSE /\ race' = [race EXCEPT ![c].i = @ + 1]
                  /\ UNCHANGED db
  /\ RaceFrame

\* createTable: the CREATE TABLE statement of createCollection
RaceCreateTable(c) ==
  /\ pc = "race" /\ race[c].pc = "create"
  /\ LET x == Exec(adapterName, Run(c), createTableStmt(adapterName, schema), {})
     IN /\ db' = x.db
        /\ race' = IF x.threw
                   THEN [race EXCEPT ![c].pc = "thrown", ![c].log = x.log]
                   ELSE [race EXCEPT ![c].pc = "createIndex", ![c].i = 1, ![c].log = x.log]
  /\ RaceFrame

\* createTable: one iteration of the index loop of createCollection
RaceCreateIndex(c) ==
  /\ pc = "race" /\ race[c].pc = "createIndex"
  /\ IF race[c].i > Len(schema)
     THEN /\ race' = [race EXCEPT ![c].pc = "returned", ![c].created = TRUE,
                        ![c].changes = <<"Table '" \o TableName \o "' created">>]
          /\ UNCHANGED db
     ELSE LET f == schema[race[c].i]
          IN IF f.unique \/ f.index
             THEN LET x == Exec(adapterName, Run(c), adapterIndexStmt(adapterName, f), {})
                  IN /\ db' = x.db
                     /\ race' = IF x.threw /\ adapterName \in {"postgres", "mongodb"}
                                THEN [race EXCEPT ![c].pc = "thrown", ![c].log = x.log]
                                ELSE [race EXCEPT ![c].i = @ + 1, ![c].log = x.log]
             ELSE /\ race' = [race EXCEPT ![c].i = @ + 1]
                  /\ UNCHANGED db
  /\ RaceFrame

RaceNext ==
  \E c \in Callers :
    \/ RaceTableExists(c)
    \/ RaceGetExistingColumns(c)
    \/ RaceAddColumn(c)
    \/ RaceSyncIndexes(c)
    \/ RaceCreateTable(c)
    \/ RaceCreateIndex(c)

RaceSpec == RaceInit /\ [][RaceNext]_<<vars, syncVars, laterVars>>

\* C22: when sync calls for one table overlap, a call that returns normally
\* has had no CREATE TABLE and no ADD COLUMN statement rejected: each of
\* them succeeded, or the call threw.
C22_LostRaceFailsLoudly ==
  pc = "race" =>
    \A c \in Callers :
      race[c].pc = "returned" =>
        /\ ~Rejected(race[c].log, "CREATE TABLE")
        /\ ~Rejected(race[c].log, "ADD COLUMN")

\* ------------------------------------------------------------------------
\* The column type of a field: table creation against ADD COLUMN
\* ------------------------------------------------------------------------
\* typeToPG, typeToMySQL, typeToSQLite: the switch of each adapter
typeToPG(type) ==
  CASE type \in {"String", "ObjectId"} -> "VARCHAR(255)"
    [] type = "Number" -> "DOUBLE PRECISION"
    [] type = "Boolean" -> "BOOLEAN"
    [] type = "Date" -> "TIMESTAMP"
    [] type \in {"Array", "Object", "Mixed"} -> "JSONB"
    [] OTHER -> "TEXT"

typeToMySQL(type) ==
  CASE type \in {"String", "ObjectId"} -> "VARCHAR(255)"
    [] type = "Number" -> "DOUBLE"
    [] type = "Boolean" -> "TINYINT(1)"
    [] type = "Date" -> "DATETIME"
    [] type \in {"Array", "Object", "Mixed"} -> "JSON"
    [] OTHER -> "TEXT"

typeToSQLite(type) ==
  CASE type \in {"String", "ObjectId"} -> "TEXT"
    [] type = "Number" -> "REAL"
    [] type = "Boolean" -> "INTEGER"
    [] type = "Date" -> "TEXT"
    [] type \in {"Array", "Object", "Mixed"} -> "TEXT"
    [] OTHER -> "TEXT"

\* the native type schemaToColumns gives the column of a field
adapterColumnType(a, type) ==
  CASE a = "postgres" -> typeToPG(type)
    [] a = "mysql" -> typeToMySQL(type)
    [] OTHER -> typeToSQLite(type)

TypeInit ==
  /\ pc = "type" /\ op = "type"
  /\ QueryIdle
  /\ adapterName \in Relational
  /\ connection = NotConnected /\ schema = <<>> /\ db = NoTable
  /\ synced = FALSE /\ prevSync = NoCall /\ lastSync = NoCall
  /\ \E t \in FieldTypes, r \in BOOLEAN :
       column = [type |-> t, required |-> r, created |-> NoDefinition, added |-> NoDefinition]
  /\ OutsideTypeIdle

\* createCollection: the type in the column definition of schemaToColumns
SchemaToColumnsType ==
  /\ pc = "type" /\ column.created = NoDefinition
  /\ column' = [column EXCEPT !.created =
                  [type |-> adapterColumnType(adapterName, column.type),
                   rest |-> IF column.required THEN " NOT NULL" ELSE ""]]
  /\ UNCHANGED <<vars, syncVars, OutsideType>>

\* alterTable: the type in the statement of getAddColumnSQL
AddColumnType ==
  /\ pc = "type" /\ column.added = NoDefinition
  /\ column' = [column EXCEPT !.added =
                  [type |-> getColumnType(adapterName, column.type),
                   rest |-> CASE ~column.required -> ""
                              [] adapterName = "postgres" -> " NOT NULL DEFAULT ''"
                              [] adapterName = "mysql" -> " NOT NULL"
                              [] OTHER -> ""]]
  /\ UNCHANGED <<vars, syncVars, OutsideType>>

TypeNext == SchemaToColumnsType \/ AddColumnType

TypeSpec == TypeInit /\ [][TypeNext]_<<vars, syncVars, laterVars>>

\* C23: for each dialect the column of a field has the same native type
\* whether table creation or an alter-mode ADD COLUMN produced it.
C23_OneNativeTypePerFieldType ==
  (pc = "type" /\ column.created # NoDefinition /\ column.added # NoDefinition) =>
    column.created.type = column.added.type

\* ------------------------------------------------------------------------
\* The connection pool: PoolManager.acquire and release
\* ------------------------------------------------------------------------
\* the largest config.max, and the number of callers
MaxPool == 2
MaxProcs == 3
Procs == 1..MaxProcs
\* the number of connections the pool may create in one behaviour
MaxConnectionIds == 3

PoolConfigs ==
  {[min |-> mn, max |-> mx, validate |-> v] :
     mn \in 0..1, mx \in 1..MaxPool, v \in BOOLEAN}

\* an entry of the connections Map, in insertion order; a deleted entry keeps
\* its place, as it does for an iterator that is already past it
Connection(id) == [id |-> id, inUse |-> FALSE, deleted |-> FALSE]
Proc == [pc |-> "idle", held |-> 0, at |-> 0, ticket |-> 0, error |-> ""]

\* initialize(): config.min connections, all idle
PoolInit ==
  /\ pc = "pool" /\ op = "pool"
  /\ OutsidePoolIdle
  /\ poolConfig \in PoolConfigs
  /\ connections = [i \in 1..poolConfig.min |-> Connection(i)]
  /\ connectionIdCounter = poolConfig.min
  /\ waitingQueue = <<>> /\ timers = {} /\ enqueued = 0
  /\ procs = [p \in Procs |-> Proc]
  /\ lastRelease = NoRelease
  /\ reaper = NoReaper

Entries(conns) == {i \in 1..Len(conns) : ~conns[i].deleted}
size(conns) == Cardinality(Entries(conns))
Ids(conns) == {conns[i].id : i \in Entries(conns)}
IndexOf(conns, id) == CHOOSE i \in 1..Len(conns) : conns[i].id = id
Without(conns, id) ==
  [i \in 1..Len(conns) |->
     IF conns[i].id = id THEN [conns[i] EXCEPT !.deleted = TRUE] ELSE conns[i]]
SetInUse(conns, id, b) ==
  [i \in 1..Len(conns) |->
     IF conns[i].id = id /\ ~conns[i].deleted THEN [conns[i] EXCEPT !.inUse = b] ELSE conns[i]]

\* the rest of acquire from the entry after the one at position `after`, run
\* to its next await: an idle connection is validated or taken; otherwise a
\* connection is added while connections.size < max; otherwise the caller
\* waits
ScanFrom(p, conns, after) ==
  LET idle == {i \in Entries(conns) : i > after /\ ~conns[i].inUse}
  IN IF idle # {}
     THEN LET i == CHOOSE j \in idle : \A k \in idle : j <= k
          IN /\ IF poolConfig.validate
                THEN /\ connections' = conns
                     /\ procs' = [procs EXCEPT ![p].pc = "validating", ![p].at = conns[i].id]
                ELSE /\ connections' = SetInUse(conns, conns[i].id, TRUE)
                     /\ procs' = [procs EXCEPT ![p].pc = "holding", ![p].held = conns[i].id]
             /\ UNCHANGED <<waitingQueue, timers, connectionIdCounter, enqueued>>
     ELSE IF size(conns) < poolConfig.max
     THEN /\ connectionIdCounter < MaxConnectionIds
          /\ connectionIdCounter' = connectionIdCounter + 1
          /\ connections' = conns
          /\ procs' = [procs EXCEPT ![p].pc = "adding", ![p].at = connectionIdCounter + 1]
          /\ UNCHANGED <<waitingQueue, timers, enqueued>>
     ELSE /\ waitingQueue' = Append(waitingQueue, p)
          /\ timers' = timers \cup {p}
          /\ enqueued' = enqueued + 1
          /\ connections' = conns
          /\ procs' = [procs EXCEPT ![p].pc = "waiting", ![p].ticket = enqueued + 1]
          /\ UNCHANGED connectionIdCounter

PoolFrame == UNCHANGED <<poolConfig, reaper, OutsidePool>>

\* acquire(), up to its first await
Acquire(p) ==
  /\ pc = "pool" /\ procs[p].pc = "idle"
  /\ ScanFrom(p, connections, 0)
  /\ UNCHANGED lastRelease
  /\ PoolFrame

\* acquire: validateConnection(conn.client) has answered
ValidateDone(p) ==
  /\ pc = "pool" /\ procs[p].pc = "validating"
  /\ \E valid \in BOOLEAN :
       IF valid
       THEN /\ connections' = SetInUse(connections, procs[p].at, TRUE)
            /\ procs' = [procs EXCEPT ![p].pc = "holding", ![p].held = procs[p].at]
       ELSE /\ procs' = [procs EXCEPT ![p].pc = "removing"]
            /\ UNCHANGED connections
  /\ UNCHANGED <<waitingQueue, timers, connectionIdCounter, enqueued, lastRelease>>
  /\ PoolFrame

\* acquire: removeConnection(id) has destroyed the client; the entry is
\* deleted and the loop continues with the next connection
RemoveDone(p) ==
  /\ pc = "pool" /\ procs[p].pc = "removing"
  /\ ScanFrom(p, Without(connections, procs[p].at), IndexOf(connections, procs[p].at))
  /\ UNCHANGED lastRelease
  /\ PoolFrame

\* addConnection: createConnection() has resolved and the entry is set
AddConnection(p) ==
  /\ pc = "pool" /\ procs[p].pc = "adding"
  /\ connections' = Append(connections, Connection(procs[p].at))
  /\ procs' = [procs EXCEPT ![p].pc = "added"]
  /\ UNCHANGED <<waitingQueue, timers, connectionIdCounter, enqueued, lastRelease>>
  /\ PoolFrame

\* addConnection: createConnection() failed retryAttempts times; acquire rejects
AddConnectionFailed(p) ==
  /\ pc = "pool" /\ procs[p].pc = "adding"
  /\ procs' = [procs EXCEPT ![p].pc = "failed",
                             ![p].error = "Failed to create connection after 3 attempts"]
  /\ UNCHANGED <<connections, waitingQueue, timers, connectionIdCounter, enqueued, lastRelease>>
  /\ PoolFrame

\* acquire: return this.acquire() after addConnection
Reacquire(p) ==
  /\ pc = "pool" /\ procs[p].pc = "added"
  /\ ScanFrom(p, connections, 0)
  /\ UNCHANGED lastRelease
  /\ PoolFrame

\* waitForConnection: the acquire timeout fires
AcquireTimeout(p) ==
  /\ pc = "pool" /\ p \in timers
  /\ timers' = timers \ {p}
  /\ waitingQueue' = SelectSeq(waitingQueue, LAMBDA w : w # p)
  /\ procs' = IF procs[p].pc = "waiting"
              THEN [procs EXCEPT ![p].pc = "timedout", ![p].error = "Connection acquire timeout"]
              ELSE procs
  /\ UNCHANGED <<connections, connectionIdCounter, enqueued, lastRelease>>
  /\ PoolFrame

\* release, were it to serve the newest waiter instead of the oldest
Release_ServesNewest(p) ==
  /\ pc = "pool" /\ procs[p].pc = "holding"
  /\ LET id == procs[p].held
         pooled == id \in Ids(connections)
         serve == pooled /\ waitingQueue # <<>>
         waiter == IF serve THEN Last(waitingQueue) ELSE 0
     IN /\ connections' = IF pooled THEN SetInUse(connections, id, serve) ELSE connections
        /\ waitingQueue' = IF serve THEN Front(waitingQueue) ELSE waitingQueue
        /\ timers' = IF serve THEN timers \ {waiter} ELSE timers
        /\ procs' = [q \in DOMAIN procs |->
                       IF q = p THEN [procs[q] EXCEPT !.pc = "released", !.held = 0]
                       ELSE IF q = waiter /\ procs[q].pc = "waiting"
                       THEN [procs[q] EXCEPT !.pc = "holding", !.held = id]
                       ELSE procs[q]]
        /\ lastRelease' = [n |-> lastRelease.n + 1, by |-> p, conn |-> id, pooled |-> pooled,
                           queue |-> waitingQueue, to |-> waiter,
                           cleared |-> waiter \notin timers',
                           inUse |-> pooled /\ connections'[IndexOf(connections, id)].inUse]
  /\ UNCHANGED <<connectionIdCounter, enqueued>>
  /\ PoolFrame

\* release(connection) by the caller that holds it
Release(p) ==
  /\ pc = "pool" /\ procs[p].pc = "holding"
  /\ LET id == procs[p].held
         pooled == id \in Ids(connections)
         serve == pooled /\ waitingQueue # <<>>
         waiter == IF serve THEN Head(waitingQueue) ELSE 0
     IN /\ connections' = IF pooled THEN SetInUse(connections, id, serve) ELSE connections
        /\ waitingQueue' = IF serve THEN Tail(waitingQueue) ELSE waitingQueue
        /\ timers' = IF serve THEN timers \ {waiter} ELSE timers
        /\ procs' = [q \in DOMAIN procs |->
                       IF q = p THEN [procs[q] EXCEPT !.pc = "released", !.held = 0]
                       ELSE IF q = waiter /\ procs[q].pc = "waiting"
                       THEN [procs[q] EXCEPT !.pc = "holding", !.held = id]
                       ELSE procs[q]]
        /\ lastRelease' = [n |-> lastRelease.n + 1, by |-> p, conn |-> id, pooled |-> pooled,
                           queue |-> waitingQueue, to |-> waiter,
                           cleared |-> waiter \notin timers',
                           inUse |-> pooled /\ connections'[IndexOf(connections, id)].inUse]
  /\ UNCHANGED <<connectionIdCounter, enqueued>>
  /\ PoolFrame

\* startReaper: the interval fires and the first loop collects, without an
\* await, the connections that are not in use and idle past idleTimeout while
\* connections.size > min; expired is the set of connections idle that long
Reap ==
  /\ pc = "pool" /\ reaper.pc = "armed"
  /\ \E expired \in SUBSET Ids(connections) :
       LET picked == [i \in 1..Len(connections) |->
                        /\ i \in Entries(connections)
                        /\ ~(connections[i].inUse \/ size(connections) <= poolConfig.min)
                        /\ connections[i].id \in expired]
           toRemove == [i \in 1..Cardinality({j \in 1..Len(connections) : picked[j]}) |->
                          connections[CHOOSE j \in 1..Len(connections) :
                                        /\ picked[j]
                                        /\ Cardinality({k \in 1..j : picked[k]}) = i].id]
       IN reaper' = [reaper EXCEPT !.pc = IF toRemove = <<>> THEN "done" ELSE "removing",
                                   !.toRemove = toRemove]
  /\ UNCHANGED <<connections, waitingQueue, timers, connectionIdCounter, enqueued, procs,
                 lastRelease>>
  /\ UNCHANGED <<poolConfig, OutsidePool>>

\* the second loop: removeConnection(id) for the next collected id, up to its
\* await of destroyConnection; an id no longer in the Map is passed over
ReapDestroy ==
  /\ pc = "pool" /\ reaper.pc = "removing"
  /\ LET id == Head(reaper.toRemove)
         rest == Tail(reaper.toRemove)
     IN reaper' = IF id \in Ids(connections)
                  THEN [reaper EXCEPT !.pc = "destroying", !.at = id, !.toRemove = rest]
                  ELSE [reaper EXCEPT !.pc = IF rest = <<>> THEN "done" ELSE "removing",
                                      !.toRemove = rest]
  /\ UNCHANGED <<connections, waitingQueue, timers, connectionIdCounter, enqueued, procs,
                 lastRelease>>
  /\ UNCHANGED <<poolConfig, OutsidePool>>

\* removeConnection: the client is destroyed and the entry deleted
ReapDelete ==
  /\ pc = "pool" /\ reaper.pc = "destroying"
  /\ LET id == reaper.at
         after == Without(connections, id)
     IN /\ connections' = after
        /\ reaper' = [reaper EXCEPT
                        !.pc = IF reaper.toRemove = <<>> THEN "done" ELSE "removing",
                        !.at = 0,
                        !.last = IF id \in Ids(connections)
                                 THEN [id |-> id,
                                       inUse |-> connections[IndexOf(connections, id)].inUse,
                                       size |-> size(after)]
                                 ELSE reaper.last]
  /\ UNCHANGED <<waitingQueue, timers, connectionIdCounter, enqueued, procs, lastRelease>>
  /\ UNCHANGED <<poolConfig, OutsidePool>>

PoolNext ==
  \E p \in Procs :
    \/ Acquire(p)
    \/ ValidateDone(p)
    \/ RemoveDone(p)
    \/ AddConnection(p)
    \/ AddConnectionFailed(p)
    \/ Reacquire(p)
    \/ AcquireTimeout(p)
    \/ Release(p)

PoolSpec == PoolInit /\ [][PoolNext]_<<vars, syncVars, laterVars>>

\* The pool with its reaper: the interval set by startReaper fires once while
\* MaxReapCallers callers acquire and release.
MaxReapCallers == 2
ReapCallers == 1..MaxReapCallers

ReapInit ==
  /\ pc = "pool" /\ op = "pool"
  /\ OutsidePoolIdle
  /\ poolConfig \in PoolConfigs
  /\ connections = [i \in 1..poolConfig.min |-> Connection(i)]
  /\ connectionIdCounter = poolConfig.min
  /\ waitingQueue = <<>> /\ timers = {} /\ enqueued = 0
  /\ procs = [p \in ReapCallers |-> Proc]
  /\ lastRelease = NoRelease
  /\ reaper = [NoReaper EXCEPT !.pc = "armed"]

ReapNext ==
  \/ Reap
  \/ ReapDestroy
  \/ ReapDelete
  \/ \E p \in ReapCallers :
       \/ Acquire(p)
       \/ ValidateDone(p)
       \/ RemoveDone(p)
       \/ AddConnection(p)
       \/ AddConnectionFailed(p)
       \/ Reacquire(p)
       \/ AcquireTimeout(p)
       \/ Release(p)

ReapSpec == ReapInit /\ [][ReapNext]_<<vars, syncVars, laterVars>>

\* C24: with config.max unchanged the pool never holds more than max
\* connections, and a caller is waiting only while max connections exist.
C24_NeverMoreThanMax ==
  pc = "pool" => size(connections) <= poolConfig.max

\* the callers still queued when the last release ran
Served == lastRelease.n > 0 /\ lastRelease.pooled /\ lastRelease.queue # <<>>
InQueue(q) == {q[i] : i \in 1..Len(q)}

MaxTrxCalls == 4

\* new Transaction(adapter, options)
Transaction(a, autoRollback) ==
  [NoTransaction EXCEPT !.adapter = a, !.autoRollback = autoRollback]

\* get isActive, isCommitted, isRolledBack
isActive(t) == t._isActive /\ ~t._isCommitted /\ ~t._isRolledBack
isCommitted(t) == t._isCommitted
isRolledBack(t) == t._isRolledBack

\* how the driver answers a begin: it works, no client can be obtained (no
\* pool, connect rejected), or the client is obtained and the BEGIN rejected
BeginOutcomes == {"ok", "no client", "rejected"}

\* beginMongoDB, beginPostgres, beginMySQL, beginSQLite: [trx, ok]
adapterBegin(t, how) ==
  IF ~HasQueryMethod(t.adapter) /\ t.adapter # "mongodb"
  THEN [trx |-> t, ok |-> FALSE]
  ELSE IF how = "no client" THEN [trx |-> t, ok |-> FALSE]
  ELSE [trx |-> [t EXCEPT !.client = TRUE], ok |-> how = "ok"]

\* commitX and rollbackX: the statement on this.client, which is then
\* released and forgotten; on SQLite the statement through adapter.query
adapterEnd(t, ok) ==
  IF ~HasQueryMethod(t.adapter) /\ t.adapter # "mongodb"
  THEN [trx |-> t, ok |-> FALSE]
  ELSE IF ~t.client THEN [trx |-> t, ok |-> TRUE]
  ELSE IF ok THEN [trx |-> [t EXCEPT !.client = FALSE], ok |-> TRUE]
  ELSE [trx |-> t, ok |-> FALSE]

\* each method gives [trx, error]; error "" is a call that resolves
begin(t, how) ==
  IF t._isActive THEN [trx |-> t, error |-> "Transaction already started"]
  ELSE LET r == adapterBegin(t, how)
       IN IF r.ok THEN [trx |-> [r.trx EXCEPT !._isActive = TRUE], error |-> ""]
          ELSE [trx |-> r.trx, error |-> "Failed to begin transaction"]

\* rollback without its early return for a transaction already rolled back
rollback_ThrowsWhenRepeated(t, ok) ==
  IF t._isCommitted THEN [trx |-> t, error |-> "Cannot rollback committed transaction"]
  ELSE IF ~t._isActive THEN [trx |-> t, error |-> "No active transaction to rollback"]
  ELSE LET r == adapterEnd(t, ok)
       IN IF r.ok
          THEN [trx |-> [r.trx EXCEPT !._isRolledBack = TRUE, !._isActive = FALSE], error |-> ""]
          ELSE [trx |-> r.trx, error |-> "Failed to rollback transaction"]

rollback(t, ok) ==
  IF t._isCommitted THEN [trx |-> t, error |-> "Cannot rollback committed transaction"]
  ELSE IF t._isRolledBack THEN [trx |-> t, error |-> ""]
  ELSE IF ~t._isActive THEN [trx |-> t, error |-> "No active transaction to rollback"]
  ELSE LET r == adapterEnd(t, ok)
       IN IF r.ok
          THEN [trx |-> [r.trx EXCEPT !._isRolledBack = TRUE, !._isActive = FALSE], error |-> ""]
          ELSE [trx |-> r.trx, error |-> "Failed to rollback transaction"]

\* commit; okRollback is the driver's answer to the rollback of autoRollback
commit(t, ok, okRollback) ==
  IF t._isCommitted \/ t._isRolledBack THEN [trx |-> t, error |-> "Transaction already ended"]
  ELSE IF ~t._isActive THEN [trx |-> t, error |-> "No active transaction to commit"]
  ELSE LET r == adapterEnd(t, ok)
       IN IF r.ok
          THEN [trx |-> [r.trx EXCEPT !._isCommitted = TRUE, !._isActive = FALSE], error |-> ""]
          ELSE IF t.autoRollback
          THEN LET b == rollback(r.trx, okRollback)
               IN IF b.error # "" THEN b
                  ELSE [trx |-> b.trx, error |-> "Failed to commit transaction"]
          ELSE [trx |-> r.trx, error |-> "Failed to commit transaction"]

NoTrxCall == [n |-> 0, op |-> "", before |-> NoTransaction, begun |-> 0, error |-> ""]
TrxCalled(name, r) ==
  [n |-> trxCall.n + 1, op |-> name, before |-> trx, begun |-> trxDb.begun,
   error |-> r.error]

\* what begin, commit and rollback do to the database, from the transaction
\* before and after the call: a begin that worked opens a transaction (a
\* session on MongoDB); a COMMIT on the client stores what the session
\* wrote, a ROLLBACK drops it
dbAfter(t, after, d) ==
  IF ~t._isActive /\ after._isActive
  THEN [d EXCEPT !.begun = d.begun + 1, !.atBegin = d.rows, !.session = d.rows]
  ELSE IF t.client /\ ~after.client
  THEN IF after._isCommitted THEN [d EXCEPT !.rows = d.session]
       ELSE [d EXCEPT !.session = d.rows]
  ELSE d

\* the row a write leaves for document x: insertOne, updateMany, deleteMany
Written(name, rows, x) ==
  CASE name = "insert" -> [rows EXCEPT ![x] = "v1"]
    [] name = "update" -> [rows EXCEPT ![x] = IF rows[x] = "" THEN "" ELSE "v2"]
    [] name = "delete" -> [rows EXCEPT ![x] = ""]

\* insert, update, delete: [db, error]. With a MongoDB session the write is
\* made in the session; otherwise it is this.adapter.insertOne, updateMany or
\* deleteMany, which runs on a connection of the adapter's pool and is
\* stored at once
write(t, name, d, x, ok) ==
  IF ~t._isActive THEN [db |-> d, error |-> "No active transaction"]
  ELSE IF ~ok THEN [db |-> d, error |-> "driver error"]
  ELSE IF t.adapter = "mongodb" /\ t.client
  THEN [db |-> [d EXCEPT !.session = Written(name, d.session, x)], error |-> ""]
  ELSE [db |-> [d EXCEPT !.rows = Written(name, d.rows, x),
                         !.session = Written(name, d.session, x)], error |-> ""]

\* query(sql, params) and find: [db, error]; a SELECT, on this.client if
\* there is one (query) or through the adapter (find)
read(t, name, d, ok) ==
  IF ~t._isActive THEN [db |-> d, error |-> "No active transaction"]
  ELSE IF name = "query" /\ t.adapter = "mongodb"
  THEN [db |-> d, error |-> "Use MongoDB methods for transactions"]
  ELSE IF ~ok THEN [db |-> d, error |-> "driver error"]
  ELSE [db |-> d, error |-> ""]

\* a Transaction used directly, or one that TransactionManager.run is about
\* to create
TrxInit ==
  /\ pc = "trx" /\ op = "trx"
  /\ OutsideTrxIdle
  /\ \E a \in Adapters, autoRollback \in BOOLEAN : trx = Transaction(a, autoRollback)
  /\ trxCall = NoTrxCall
  /\ trxRun \in {NoRun, [NoRun EXCEPT !.phase = "begin"]}
  /\ \E rows \in {NoRows, [NoRows EXCEPT !["a"] = "v1"]} :
       trxDb = [NoDb EXCEPT !.rows = rows, !.session = rows, !.atBegin = rows]

Direct == pc = "trx" /\ trxRun = NoRun /\ trxCall.n < MaxTrxCalls
TrxFrame == UNCHANGED OutsideTrx

\* await trx.begin()
Begin ==
  /\ Direct
  /\ \E how \in BeginOutcomes :
       LET r == begin(trx, how)
       IN /\ trx' = r.trx /\ trxCall' = TrxCalled("begin", r)
          /\ trxDb' = dbAfter(trx, r.trx, trxDb)
  /\ UNCHANGED trxRun
  /\ TrxFrame

\* await trx.commit()
Commit ==
  /\ Direct
  /\ \E ok \in BOOLEAN, okRollback \in BOOLEAN :
       LET r == commit(trx, ok, okRollback)
       IN /\ trx' = r.trx /\ trxCall' = TrxCalled("commit", r)
          /\ trxDb' = dbAfter(trx, r.trx, trxDb)
  /\ UNCHANGED trxRun
  /\ TrxFrame

\* await trx.rollback()
Rollback ==
  /\ Direct
  /\ \E ok \in BOOLEAN :
       LET r == rollback(trx, ok)
       IN /\ trx' = r.trx /\ trxCall' = TrxCalled("rollback", r)
          /\ trxDb' = dbAfter(trx, r.trx, trxDb)
  /\ UNCHANGED trxRun
  /\ TrxFrame

\* run's catch block: rollback if the transaction is still active, then the
\* failure result; a rollback that rejects makes run reject
runCatch(t, error, ok) ==
  IF isActive(t)
  THEN LET b == rollback(t, ok)
       IN IF b.error # ""
          THEN [trx |-> b.trx, phase |-> "rejected", error |-> b.error]
          ELSE [trx |-> b.trx, phase |-> "failure", error |-> error]
  ELSE [trx |-> t, phase |-> "failure", error |-> error]

Settle(c) ==
  /\ trx' = c.trx
  /\ trxDb' = dbAfter(trx, c.trx, trxDb)
  /\ trxRun' = [trxRun EXCEPT !.phase = c.phase, !.error = c.error]

\* run: trx = this.create(options); await trx.begin()
RunBegin ==
  /\ pc = "trx" /\ trxRun.phase = "begin"
  /\ \E how \in BeginOutcomes, okRollback \in BOOLEAN :
       LET r == begin(trx, how)
       IN IF r.error = ""
          THEN /\ trx' = r.trx /\ trxRun' = [trxRun EXCEPT !.phase = "callback"]
               /\ trxDb' = dbAfter(trx, r.trx, trxDb)
          ELSE Settle(runCatch(r.trx, r.error, okRollback))
  /\ UNCHANGED trxCall
  /\ TrxFrame

\* run: await callback(trx), which resolves or rejects
RunCallback ==
  /\ pc = "trx" /\ trxRun.phase = "callback"
  /\ \/ /\ trxRun' = [trxRun EXCEPT !.phase = "commit", !.callback = "resolved"]
        /\ UNCHANGED <<trx, trxDb>>
     \/ \E okRollback \in BOOLEAN :
          LET c == runCatch(trx, "Test error", okRollback)
          IN /\ trx' = c.trx
             /\ trxDb' = dbAfter(trx, c.trx, trxDb)
             /\ trxRun' = [phase |-> c.phase, callback |-> "rejected", error |-> c.error]
  /\ UNCHANGED trxCall
  /\ TrxFrame

\* run: await trx.commit(), then the success result
RunCommit ==
  /\ pc = "trx" /\ trxRun.phase = "commit"
  /\ \E ok \in BOOLEAN, okAuto \in BOOLEAN, okRollback \in BOOLEAN :
       LET r == commit(trx, ok, okAuto)
       IN IF r.error = ""
          THEN /\ trx' = r.trx /\ trxRun' = [trxRun EXCEPT !.phase = "success"]
               /\ trxDb' = dbAfter(trx, r.trx, trxDb)
          ELSE Settle(runCatch(r.trx, r.error, okRollback))
  /\ UNCHANGED trxCall
  /\ TrxFrame

\* await trx.query(sql, params)
Query ==
  /\ Direct
  /\ \E ok \in BOOLEAN :
       LET r == read(trx, "query", trxDb, ok)
       IN trxDb' = r.db /\ trxCall' = TrxCalled("query", r)
  /\ UNCHANGED <<trx, trxRun>>
  /\ TrxFrame

\* await trx.find(collection, filter)
Find ==
  /\ Direct
  /\ \E ok \in BOOLEAN :
       LET r == read(trx, "find", trxDb, ok)
       IN trxDb' = r.db /\ trxCall' = TrxCalled("find", r)
  /\ UNCHANGED <<trx, trxRun>>
  /\ TrxFrame

\* await trx.insert(collection, doc)
Insert ==
  /\ Direct
  /\ \E x \in TrxDocs, ok \in BOOLEAN :
       LET r == write(trx, "insert", trxDb, x, ok)
       IN trxDb' = r.db /\ trxCall' = TrxCalled("insert", r)
  /\ UNCHANGED <<trx, trxRun>>
  /\ TrxFrame

\* await trx.update(collection, filter, update)
Update ==
  /\ Direct
  /\ \E x \in TrxDocs, ok \in BOOLEAN :
       LET r == write(trx, "update", trxDb, x, ok)
       IN trxDb' = r.db /\ trxCall' = TrxCalled("update", r)
  /\ UNCHANGED <<trx, trxRun>>
  /\ TrxFrame

\* await trx.delete(collection, filter)
Delete ==
  /\ Direct
  /\ \E x \in TrxDocs, ok \in BOOLEAN :
       LET r == write(trx, "delete", trxDb, x, ok)
       IN trxDb' = r.db /\ trxCall' = TrxCalled("delete", r)
  /\ UNCHANGED <<trx, trxRun>>
  /\ TrxFrame

TrxNext ==
  \/ Begin \/ Commit \/ Rollback
  \/ Query \/ Find \/ Insert \/ Update \/ Delete
  \/ RunBegin \/ RunCallback \/ RunCommit

TrxSpec == TrxInit /\ [][TrxNext]_<<vars, syncVars, laterVars>>

RunSettled == pc = "trx" /\ trxRun.phase \in {"success", "failure", "rejected"}

\* C26: begin on a started transaction, commit before begin, commit after
\* the end and rollback after commit are rejected with their messages and
\* change nothing; a second rollback resolves and changes nothing; the
\* transaction is never both committed and rolled back, and while it is
\* active it is neither.
C26_LifecycleEnforced ==
  (pc = "trx" /\ trxRun = NoRun) =>
    LET b == trxCall.before
        ended == b._isCommitted \/ b._isRolledBack
    IN /\ (trxCall.op = "begin" /\ b._isActive) =>
            trxCall.error = "Transaction already started" /\ trx = b
       /\ (trxCall.op = "commit" /\ ~b._isActive /\ ~ended) =>
            trxCall.error = "No active transaction to commit" /\ trx = b
       /\ (trxCall.op = "commit" /\ ended) =>
            trxCall.error = "Transaction already ended" /\ trx = b
       /\ (trxCall.op = "rollback" /\ b._isCommitted) =>
            trxCall.error = "Cannot rollback committed transaction" /\ trx = b
       /\ (trxCall.op = "rollback" /\ b._isRolledBack) =>
            trxCall.error = "" /\ trx = b
       /\ ~(isCommitted(trx) /\ isRolledBack(trx))
       /\ isActive(trx) => ~isCommitted(trx) /\ ~isRolledBack(trx)

\* a rollback of a transaction that an earlier call had rolled back
C26_Witness ==
  /\ pc = "trx" /\ trxRun = NoRun
  /\ trxCall.op = "rollback" /\ trxCall.before._isRolledBack
  /\ trxCall.n >= 3

\* C27: run always settles with a result value; the result is a success
\* exactly if the transaction is committed, which needs the callback to have
\* resolved; a transaction that was begun and not committed is rolled back;
\* and the transaction is not active once run has settled.
C27_RunCommitsOrRollsBack ==
  RunSettled =>
    /\ trxRun.phase # "rejected"
    /\ ~isActive(trx)
    /\ trxRun.phase = "success" <=> isCommitted(trx)
    /\ isCommitted(trx) => trxRun.callback = "resolved"
    /\ (trxRun.callback # "" /\ ~isCommitted(trx)) => isRolledBack(trx)

\* ------------------------------------------------------------------------
\* MigrationManager: addMigration, migrate, rollback, status
\* ------------------------------------------------------------------------
\* the number of migrate, rollback and status calls
MaxMigCalls == 3

MigrationFiles ==
  {[name |-> "001_first", timestamp |-> 1000],
   [name |-> "002_second", timestamp |-> 2000],
   [name |-> "003_third", timestamp |-> 3000]}
MigrationNames == {f.name : f \in MigrationFiles}

\* a row written by an earlier deployment whose file is no longer registered
LegacyRecord == [name |-> "000_legacy", timestamp |-> 500, batch |-> 1]

\* the statements on the history table that the driver may reject
MigFaultKeys == {"SELECT *", "SELECT MAX", "INSERT", "DELETE"}
MigFaults == {{}} \cup {{k} : k \in MigFaultKeys}
\* the migrations whose up (in migrate) or down (in rollback) rejects
Failing(files) == {{}} \cup {{files[i].name} : i \in 1..Len(files)}
\* the statements that are written with ? placeholders
QuestionMarked == {"INSERT", "SELECT batch", "DELETE"}

Names(rows) == [i \in 1..Len(rows) |-> rows[i].name]
NameSet(rows) == {rows[i].name : i \in 1..Len(rows)}
Reverse(rows) == [i \in 1..Len(rows) |-> rows[Len(rows) + 1 - i]]

\* addMigration: push, then the stable sort by timestamp of a list that was
\* sorted before the push
addMigration(files, m) ==
  SelectSeq(files, LAMBDA x : x.timestamp <= m.timestamp) \o <<m>> \o
  SelectSeq(files, LAMBDA x : x.timestamp > m.timestamp)

\* ORDER BY timestamp ASC
RECURSIVE OrderByTimestamp(_)
OrderByTimestamp(rows) ==
  IF rows = <<>> THEN <<>>
  ELSE LET i == CHOOSE j \in 1..Len(rows) : \A k \in 1..Len(rows) :
                  rows[j].timestamp < rows[k].timestamp \/ (rows[j].timestamp = rows[k].timestamp /\ j <= k)
       IN <<rows[i]>> \o OrderByTimestamp(SubSeq(rows, 1, i - 1) \o SubSeq(rows, i + 1, Len(rows)))

\* (this.adapter as any).query(sql, params) rejects: the adapter has no query
\* method (SQLite), the statement has ? placeholders and the dialect wants
\* $n (PostgreSQL), or the driver rejects it
Rejects(a, key, faults) ==
  \/ ~HasQueryMethod(a)
  \/ a = "postgres" /\ key \in QuestionMarked
  \/ key \in faults

\* ensureMigrationTable rejects: on MongoDB createCollection reads
\* Object.entries(schema.definition) of the schema {}; on SQLite the missing
\* query method is a TypeError that is thrown again
ensureMigrationTableThrows(a) == a = "mongodb" \/ ~HasQueryMethod(a)

\* getExecutedMigrations on the relational adapters (no call reaches it on
\* MongoDB): a rejected query reads as no rows
getExecutedMigrations(a, rows, faults) ==
  IF Rejects(a, "SELECT *", faults) THEN <<>> ELSE OrderByTimestamp(rows)

getPendingMigrations(a, files, rows, faults) ==
  LET executedNames == NameSet(getExecutedMigrations(a, rows, faults))
  IN SelectSeq(files, LAMBDA m : m.name \notin executedNames)

MaxBatch(rows) ==
  IF rows = <<>> THEN 0
  ELSE CHOOSE b \in {rows[i].batch : i \in 1..Len(rows)} :
         \A i \in 1..Len(rows) : rows[i].batch <= b

\* getLastBatch: a rejected query reads as batch 0
getLastBatch(a, rows, faults) ==
  IF Rejects(a, "SELECT MAX", faults) THEN 0 ELSE MaxBatch(rows)

getNextBatch(a, rows, faults) == getLastBatch(a, rows, faults) + 1

\* recordMigration rejects; name is UNIQUE
recordMigrationRejects(a, rows, m, faults) ==
  Rejects(a, "INSERT", faults) \/ m.name \in NameSet(rows)

\* the loop of migrate over the pending migrations; acc = [history, ups,
\* executed, failed]
RECURSIVE migrateLoop(_, _, _, _, _, _)
migrateLoop(a, todo, batch, faults, failing, acc) ==
  IF todo = <<>> THEN acc
  ELSE LET m == Head(todo)
           ran == [acc EXCEPT !.ups = Append(acc.ups, m.name)]
       IN IF m.name \in failing \/ recordMigrationRejects(a, acc.history, m, faults)
          THEN [ran EXCEPT !.failed = TRUE]
          ELSE migrateLoop(a, Tail(todo), batch, faults, failing,
                 [ran EXCEPT !.history = Append(acc.history,
                                [name |-> m.name, timestamp |-> m.timestamp, batch |-> batch]),
                             !.executed = Append(acc.executed, m.name)])

\* migrate(): [history, threw, batch, ups, result]
migrate(a, files, rows, faults, failing) ==
  IF ensureMigrationTableThrows(a)
  THEN [history |-> rows, threw |-> TRUE, batch |-> 0, ups |-> <<>>, result |-> NoMigrationResult]
  ELSE LET pending == getPendingMigrations(a, files, rows, faults)
           batch == getNextBatch(a, rows, faults)
           x == migrateLoop(a, pending, batch, faults, failing,
                  [history |-> rows, ups |-> <<>>, executed |-> <<>>, failed |-> FALSE])
       IN [history |-> x.history, threw |-> FALSE, batch |-> batch, ups |-> x.ups,
           result |-> [success |-> ~x.failed, executed |-> x.executed, rolled_back |-> <<>>,
                       pending |-> Names(SelectSeq(pending,
                                     LAMBDA m : m.name \notin NameSet(
                                       [i \in 1..Len(x.executed) |-> [name |-> x.executed[i]]])))]]

\* the loop of rollback over the records of the last batch, newest first;
\* acc = [history, downs, rolled_back, failed]
RECURSIVE rollbackLoop(_, _, _, _, _, _)
rollbackLoop(a, files, todo, faults, failing, acc) ==
  IF todo = <<>> THEN acc
  ELSE LET record == Head(todo)
       IN IF record.name \notin NameSet(files)
          THEN rollbackLoop(a, files, Tail(todo), faults, failing, acc)
          ELSE LET ran == [acc EXCEPT !.downs = Append(acc.downs, record.name)]
               IN IF record.name \in failing \/ Rejects(a, "DELETE", faults)
                  THEN [ran EXCEPT !.failed = TRUE]
                  ELSE rollbackLoop(a, files, Tail(todo), faults, failing,
                         [ran EXCEPT !.history = SelectSeq(acc.history,
                                                   LAMBDA r : r.name # record.name),
                                     !.rolled_back = Append(acc.rolled_back, record.name)])

\* rollback(): [history, threw, batch, downs, result]
rollbackLastBatch(a, files, rows, faults, failing) ==
  LET nothing == [NoMigrationResult EXCEPT !.success = TRUE]
      lastBatch == getLastBatch(a, rows, faults)
  IN IF ensureMigrationTableThrows(a)
     THEN [history |-> rows, threw |-> TRUE, batch |-> 0, downs |-> <<>>, result |-> NoMigrationResult]
     ELSE IF lastBatch = 0
     THEN [history |-> rows, threw |-> FALSE, batch |-> 0, downs |-> <<>>, result |-> nothing]
     ELSE IF Rejects(a, "SELECT batch", faults)
     THEN [history |-> rows, threw |-> TRUE, batch |-> lastBatch, downs |-> <<>>,
           result |-> NoMigrationResult]
     ELSE LET migrationsToRollback ==
                OrderByTimestamp(SelectSeq(rows, LAMBDA r : r.batch = lastBatch))
              x == rollbackLoop(a, files, Reverse(migrationsToRollback), faults, failing,
                     [history |-> rows, downs |-> <<>>, rolled_back |-> <<>>, failed |-> FALSE])
          IN [history |-> x.history, threw |-> FALSE, batch |-> lastBatch, downs |-> x.downs,
              result |-> [success |-> ~x.failed, executed |-> <<>>,
                          rolled_back |-> x.rolled_back, pending |-> <<>>]]

\* status(): the names of the executed rows and of the pending files
status(a, files, rows, faults) ==
  IF ensureMigrationTableThrows(a)
  THEN [threw |-> TRUE, result |-> NoMigrationResult]
  ELSE [threw |-> FALSE,
        result |-> [success |-> TRUE, rolled_back |-> <<>>,
                    executed |-> Names(getExecutedMigrations(a, rows, faults)),
                    pending |-> Names(getPendingMigrations(a, files, rows, faults))]]

\* a new MigrationManager on a history table that is empty or, where a row
\* can have been written at all, holds a row of an earlier deployment
MigInit ==
  /\ pc = "mig" /\ op = "mig"
  /\ OutsideMigIdle
  /\ migAdapter \in Adapters
  /\ migrations = <<>>
  /\ history \in {<<>>} \cup (IF migAdapter = "mysql" THEN {<<LegacyRecord>>} ELSE {})
  /\ migCall = NoMigCall

MigFrame == UNCHANGED OutsideMig
MigCalled(name, faults, failing) ==
  [NoMigCall EXCEPT !.n = migCall.n + 1, !.op = name, !.faults = faults, !.failing = failing,
                    !.files = migrations, !.before = history]

\* manager.addMigration(file)
AddMigration ==
  /\ pc = "mig"
  /\ \E m \in MigrationFiles :
       /\ m.name \notin NameSet(migrations)
       /\ migrations' = addMigration(migrations, m)
  /\ UNCHANGED <<migAdapter, history, migCall>>
  /\ MigFrame

\* await manager.migrate()
Migrate ==
  /\ pc = "mig" /\ migCall.n < MaxMigCalls
  /\ \E faults \in MigFaults, failing \in Failing(migrations) :
       \E r \in {migrate(migAdapter, migrations, history, faults, failing)} :
          /\ history' = r.history
          /\ migCall' = [MigCalled("migrate", faults, failing) EXCEPT
                           !.threw = r.threw, !.batch = r.batch, !.ups = r.ups,
                           !.result = r.result]
  /\ UNCHANGED <<migAdapter, migrations>>
  /\ MigFrame

\* await manager.rollback()
RollbackLastBatch ==
  /\ pc = "mig" /\ migCall.n < MaxMigCalls
  /\ \E faults \in MigFaults, failing \in Failing(migrations) :
       \E r \in {rollbackLastBatch(migAdapter, migrations, history, faults, failing)} :
          /\ history' = r.history
          /\ migCall' = [MigCalled("rollback", faults, failing) EXCEPT
                           !.threw = r.threw, !.batch = r.batch, !.downs = r.downs,
                           !.result = r.result]
  /\ UNCHANGED <<migAdapter, migrations>>
  /\ MigFrame

\* await manager.status()
Status ==
  /\ pc = "mig" /\ migCall.n < MaxMigCalls
  /\ \E faults \in MigFaults :
       \E r \in {status(migAdapter, migrations, history, faults)} :
          migCall' = [MigCalled("status", faults, {}) EXCEPT
                        !.threw = r.threw, !.result = r.result]
  /\ UNCHANGED <<migAdapter, migrations, history>>
  /\ MigFrame

MigNext == AddMigration \/ Migrate \/ RollbackLastBatch \/ Status

MigSpec == MigInit /\ [][MigNext]_<<vars, syncVars, laterVars>>

\* what the last call found: the registered files without a row in the
\* history table, and the first of them whose up was going to reject
Pending == SelectSeq(migCall.files, LAMBDA m : m.name \notin NameSet(migCall.before))
FirstFailing ==
  IF \E i \in 1..Len(Pending) : Pending[i].name \in migCall.failing
  THEN CHOOSE i \in 1..Len(Pending) :
         /\ Pending[i].name \in migCall.failing
         /\ \A j \in 1..(i - 1) : Pending[j].name \notin migCall.failing
  ELSE 0
Ascending(files) ==
  \A i, j \in 1..Len(files) : i < j => files[i].timestamp <= files[j].timestamp
MigrateDone == pc = "mig" /\ migCall.op = "migrate"

\* C28: with the driver rejecting nothing, migrate runs the up of the pending
\* migrations in ascending timestamp order, whatever the order of the
\* addMigration calls, up to and including the first whose up fails; the
\* result then has success false, executed the ones before it and pending it
\* and the later ones; with no failing up every pending migration is run
\* and executed.
C28_AscendingUntilFirstFailure ==
  (pc = "mig" => Ascending(migrations)) /\
  ((MigrateDone /\ migCall.faults = {}) =>
     LET k == FirstFailing
         todo == Names(Pending)
         r == migCall.result
     IN /\ ~migCall.threw
        /\ IF k = 0
           THEN /\ migCall.ups = todo
                /\ r.success /\ r.executed = todo /\ r.pending = <<>>
           ELSE /\ migCall.ups = SubSeq(todo, 1, k)
                /\ ~r.success
                /\ r.executed = SubSeq(todo, 1, k - 1)
                /\ r.pending = SubSeq(todo, k, Len(todo)))

InSeq(x, q) == \E i \in 1..Len(q) : q[i] = x
RowSet(rows) == {rows[i] : i \in 1..Len(rows)}

\* C29: no migrate runs the up of a migration that has a row in the history
\* table, and a status call reports exactly the recorded migrations as
\* executed and exactly the unrecorded registered ones as pending.
C29_ExecutedNeverRunAgain ==
  /\ MigrateDone => \A name \in NameSet(migCall.before) : ~InSeq(name, migCall.ups)
  /\ (pc = "mig" /\ migCall.op = "status" /\ ~migCall.threw) =>
       /\ {migCall.result.executed[i] : i \in 1..Len(migCall.result.executed)}
            = NameSet(migCall.before)
       /\ migCall.result.pending = Names(Pending)

\* the registered migrations recorded in the highest batch, newest first
LastBatchNames ==
  Names(Reverse(OrderByTimestamp(SelectSeq(migCall.before,
    LAMBDA r : r.batch = MaxBatch(migCall.before) /\ r.name \in NameSet(migCall.files)))))

\* C30: the rows written by one migrate all carry the batch after the
\* highest recorded one; rollback runs down for the registered migrations
\* of the highest recorded batch, newest first, and when it succeeds it has
\* run all of them and removed exactly their rows; rows of earlier batches
\* stay; with nothing recorded rollback does nothing and succeeds.
C30_BatchesAndRollback ==
  /\ (MigrateDone /\ ~migCall.threw) =>
       \A r \in RowSet(history) \ RowSet(migCall.before) :
         r.batch = MaxBatch(migCall.before) + 1
  /\ (pc = "mig" /\ migCall.op = "rollback") =>
       /\ migCall.before = <<>> =>
            ~migCall.threw /\ migCall.result.success /\ migCall.downs = <<>> /\ history = <<>>
       /\ ~migCall.threw =>
            /\ \E k \in 0..Len(LastBatchNames) : migCall.downs = SubSeq(LastBatchNames, 1, k)
            /\ migCall.result.success =>
                 /\ migCall.downs = LastBatchNames
                 /\ migCall.result.rolled_back = LastBatchNames
                 /\ RowSet(history) =
                      {r \in RowSet(migCall.before) : ~InSeq(r.name, LastBatchNames)}
            /\ \A r \in RowSet(migCall.before) :
                 r.batch < MaxBatch(migCall.before) => r \in RowSet(history)

\* ------------------------------------------------------------------------
\* C33: the placeholders of the statement of PostgreSQLAdapter.updateMany
\* ------------------------------------------------------------------------
PostgresUpdated ==
  pc = "done" /\ op = "updateMany" /\ dialect = "postgres" /\ outcome = "ok"
\* the statement around its WHERE keyword
SetPart == Split(sql, "WHERE")[1]
WherePart == Split(sql, "WHERE")[2]
Marks(tokens) == {tokens[i] : i \in {j \in 1..Len(tokens) : IsDollarMark(tokens[j])}}

\* C33: in the UPDATE statement of the PostgreSQL updateMany no placeholder of
\* the SET clause is a placeholder of the WHERE clause, and the placeholders
\* of the statement are $1..$n for the n parameters handed to the driver.
C33_SetAndWhereShareNoIndex ==
  PostgresUpdated =>
    /\ Marks(SetPart) \cap Marks(WherePart) = {}
    /\ Marks(sql) = {"$" \o ToString(i) : i \in 1..Len(sqlParams)}

\* ------------------------------------------------------------------------
\* C34: membership in an empty list
\* ------------------------------------------------------------------------
\* the declared filter has a field with {$in: []}
HasEmptyIn(f) ==
  \E i \in 1..Len(f) :
    /\ f[i].t = "ops"
    /\ \E j \in 1..Len(f[i].ops) :
         f[i].ops[j].op = "$in" /\ f[i].ops[j].val.t = "list" /\ f[i].ops[j].val.items = <<>>

\* C34: a filter with a {$in: []} leaf compiles, in the SQL compilers, to a
\* clause that no row satisfies, as the native filter is satisfied by no
\* document.
C34_EmptyInMatchesNothing ==
  (pc = "done" /\ op = "find" /\ HasEmptyIn(filter)) =>
    IF dialect \in SQLDialects
    THEN \A row \in Rows : EvalWhere(where, params, row) # "T"
    ELSE \A doc \in Rows : ~MongoSatisfied(mongoFilter, doc)

\* C35: no two callers hold the same pooled connection at once.
C35_NoConnectionHeldTwice ==
  pc = "pool" =>
    \A p, q \in Procs :
      (p # q /\ procs[p].pc = "holding" /\ procs[q].pc = "holding") =>
        procs[p].held # procs[q].held

\* C39: the reaper never removes a connection that is in use and never
\* leaves the pool with fewer than config.min connections.
C39_ReaperKeepsMinAndInUse ==
  (pc = "pool" /\ reaper.last # NoRemoval) =>
    /\ ~reaper.last.inUse
    /\ reaper.last.size >= poolConfig.min

\* C38: when migrate returns, every migration whose up completed during the
\* call has a row in the history table, on every SQL dialect.
C38_CompletedUpsAreRecorded ==
  (MigrateDone /\ ~migCall.threw) =>
    \A i \in 1..Len(migCall.ups) :
      migCall.ups[i] \notin migCall.failing => migCall.ups[i] \in NameSet(history)

TrxOperations == {"query", "insert", "find", "update", "delete"}

\* C36: on a relational adapter a rollback that ends the transaction leaves
\* the stored rows as they were at begin, whatever insert, update and delete
\* wrote in between.
C36_RollbackUndoesWrites ==
  (pc = "trx" /\ trxRun = NoRun /\ trx.adapter \in Relational
     /\ trxCall.op = "rollback" /\ trxCall.before._isActive /\ trxCall.error = "") =>
    trxDb.rows = trxDb.atBegin

\* C37: begin on a committed or rolled-back transaction is rejected and opens
\* no database transaction, and query, insert, find, update and delete are
\* rejected whenever isActive is false.
C37_EndedIsTerminal ==
  (pc = "trx" /\ trxRun = NoRun) =>
    LET b == trxCall.before
    IN /\ (trxCall.op = "begin" /\ (b._isCommitted \/ b._isRolledBack)) =>
            trxCall.error # "" /\ trxDb.begun = trxCall.begun
       /\ (trxCall.op \in TrxOperations /\ ~isActive(b)) =>
            trxCall.error = "No active transaction"

\* ------------------------------------------------------------------------
\* CircuitBreaker: execute and reset
\* ------------------------------------------------------------------------
\* the largest threshold, the callers of execute, and the number of execute
\* and reset calls in one behaviour
MaxThreshold == 2
MaxBreakerCallers == 2
MaxExecutes == 5
BreakerCallers == 1..MaxBreakerCallers

\* new CircuitBreaker(threshold, resetTimeout); lastFailureTime is 0, which
\* is longer ago than resetTimeout
CircuitBreaker(threshold) ==
  [threshold |-> threshold, failures |-> 0, state |-> "closed", elapsed |-> TRUE]
Idle == [pc |-> "idle", probe |-> FALSE, reset |-> FALSE]

BreakerInit ==
  /\ pc = "breaker" /\ op = "breaker"
  /\ OutsideBreakerIdle
  /\ \E threshold \in 1..MaxThreshold : breaker = CircuitBreaker(threshold)
  /\ executions = [c \in BreakerCallers |-> Idle]
  /\ lastAdmit = NoAdmit
  /\ lastDone = NoDone

BreakerFrame == UNCHANGED OutsideBreaker

\* execute(fn) up to `await fn()`: an open breaker turns half-open when
\* resetTimeout has elapsed since the last failure and otherwise throws
Execute(c) ==
  /\ pc = "breaker" /\ executions[c].pc = "idle" /\ lastAdmit.n < MaxExecutes
  /\ LET open == breaker.state = "open"
         rejected == open /\ ~breaker.elapsed
         probe == open /\ breaker.elapsed
     IN /\ breaker' = IF probe THEN [breaker EXCEPT !.state = "half-open"] ELSE breaker
        /\ executions' = IF rejected THEN executions
                         ELSE [executions EXCEPT ![c] = [pc |-> "running", probe |-> probe,
                                                         reset |-> FALSE]]
        /\ lastAdmit' = [n |-> lastAdmit.n + 1, by |-> c, open |-> open,
                         elapsed |-> breaker.elapsed, invoked |-> ~rejected,
                         state |-> breaker'.state,
                         error |-> IF rejected THEN "Circuit breaker is open" ELSE ""]
  /\ UNCHANGED lastDone
  /\ BreakerFrame

\* execute: fn() resolved
Succeed(c) ==
  /\ pc = "breaker" /\ executions[c].pc = "running"
  /\ breaker' = [breaker EXCEPT
                   !.state = IF breaker.state = "half-open" THEN "closed" ELSE breaker.state,
                   !.failures = 0]
  /\ executions' = [executions EXCEPT ![c] = Idle]
  /\ lastDone' = [by |-> c, outcome |-> "ok", probe |-> executions[c].probe,
                  reset |-> executions[c].reset, state |-> breaker'.state,
                  failures |-> breaker'.failures, streak |-> 0]
  /\ UNCHANGED lastAdmit
  /\ BreakerFrame

\* execute, were it to open the breaker only past the threshold
Fail_OpensPastThreshold(c) ==
  /\ pc = "breaker" /\ executions[c].pc = "running"
  /\ breaker' = [breaker EXCEPT
                   !.failures = breaker.failures + 1,
                   !.elapsed = FALSE,
                   !.state = IF breaker.failures + 1 > breaker.threshold
                             THEN "open" ELSE breaker.state]
  /\ executions' = [executions EXCEPT ![c] = Idle]
  /\ lastDone' = [by |-> c, outcome |-> "fail", probe |-> executions[c].probe,
                  reset |-> executions[c].reset, state |-> breaker'.state,
                  failures |-> breaker'.failures, streak |-> lastDone.streak + 1]
  /\ UNCHANGED lastAdmit
  /\ BreakerFrame

\* execute: fn() rejected
Fail(c) ==
  /\ pc = "breaker" /\ executions[c].pc = "running"
  /\ breaker' = [breaker EXCEPT
                   !.failures = breaker.failures + 1,
                   !.elapsed = FALSE,
                   !.state = IF breaker.failures + 1 >= breaker.threshold
                             THEN "open" ELSE breaker.state]
  /\ executions' = [executions EXCEPT ![c] = Idle]
  /\ lastDone' = [by |-> c, outcome |-> "fail", probe |-> executions[c].probe,
                  reset |-> executions[c].reset, state |-> breaker'.state,
                  failures |-> breaker'.failures, streak |-> lastDone.streak + 1]
  /\ UNCHANGED lastAdmit
  /\ BreakerFrame

\* resetTimeout elapses with no further failure
Elapse ==
  /\ pc = "breaker" /\ ~breaker.elapsed
  /\ breaker' = [breaker EXCEPT !.elapsed = TRUE]
  /\ UNCHANGED <<executions, lastAdmit, lastDone>>
  /\ BreakerFrame

\* reset(); the executions that are running are marked as having seen it
Reset ==
  /\ pc = "breaker" /\ lastAdmit.n < MaxExecutes
  /\ breaker' = [breaker EXCEPT !.state = "closed", !.failures = 0, !.elapsed = TRUE]
  /\ executions' = [c \in BreakerCallers |->
                      IF executions[c].pc = "running"
                      THEN [executions[c] EXCEPT !.reset = TRUE] ELSE executions[c]]
  /\ lastAdmit' = [NoAdmit EXCEPT !.n = lastAdmit.n + 1, !.state = "closed"]
  /\ lastDone' = [NoDone EXCEPT !.state = "closed"]
  /\ BreakerFrame

BreakerNext ==
  \/ Elapse
  \/ Reset
  \/ \E c \in BreakerCallers :
       \/ Execute(c)
       \/ Succeed(c)
       \/ Fail(c)

BreakerSpec == BreakerInit /\ [][BreakerNext]_<<vars, syncVars, laterVars>>

\* C31: the breaker starts closed with no failures; after threshold failed
\* executions in a row with no success in between it is open; an execute
\* that finds it open before resetTimeout has elapsed is rejected with
\* 'Circuit breaker is open' and its function is not invoked; a successful
\* execution leaves the failure count at 0.
C31_OpensAtThreshold ==
  pc = "breaker" =>
    /\ (lastAdmit.n = 0 /\ lastDone = NoDone) =>
          breaker.state = "closed" /\ breaker.failures = 0
    /\ (lastDone.outcome = "fail" /\ lastDone.streak >= breaker.threshold) =>
          lastDone.state = "open"
    /\ (lastAdmit.open /\ ~lastAdmit.elapsed) =>
          /\ lastAdmit.error = "Circuit breaker is open"
          /\ ~lastAdmit.invoked
          /\ executions[lastAdmit.by].pc = "idle"
    /\ lastDone.outcome = "ok" => lastDone.failures = 0

\* the threshold-th failure in a row has opened the breaker and a later
\* execute was rejected
C31_Witness ==
  /\ pc = "breaker"
  /\ breaker.threshold = MaxThreshold
  /\ lastDone.outcome = "fail" /\ lastDone.streak = breaker.threshold
  /\ lastAdmit.open /\ ~lastAdmit.elapsed /\ lastAdmit.error = "Circuit breaker is open"

\* C32: an execute that finds the breaker open after resetTimeout has elapsed
\* is admitted with the breaker half-open, and when its function succeeds
\* the breaker is closed with no failures.
C32_ProbeSuccessCloses ==
  pc = "breaker" =>
    /\ (lastAdmit.open /\ lastAdmit.elapsed) =>
          lastAdmit.invoked /\ lastAdmit.state = "half-open"
    /\ (lastDone.outcome = "ok" /\ lastDone.probe /\ ~lastDone.reset) =>
          lastDone.state = "closed" /\ lastDone.failures = 0

\* C40: a failed execution that was admitted as the half-open probe leaves
\* the breaker open, and the breaker is never open or half-open with fewer
\* failures than the threshold.
C40_FailedProbeReopens ==
  pc = "breaker" =>
    /\ (lastDone.outcome = "fail" /\ lastDone.probe /\ ~lastDone.reset) =>
          lastDone.state = "open"
    /\ breaker.state \in {"open", "half-open"} => breaker.failures >= breaker.threshold
====
